---- MODULE Spec2Model ----
(***************************************************************************)
(* Model of the ArcGIS scraper's query aggregation (query_features, the    *)
(* per-region loop of main, _query_all_subdivisions) and of the owner      *)
(* registry / workbook linking (_build_owner_registry,                     *)
(* _apply_hyperlink_urls, _write_excel_workbook) in src/scrape_arcgis.py.  *)
(*                                                                         *)
(* Text is modelled as a sequence of characters, each a string, so that    *)
(* strip(), upper(), lower(), title(), html.unescape and quote doubling    *)
(* are computed and not assumed.  A printable character of ASCII is the    *)
(* string that holds it; any other character is named by its code point,   *)
(* as in "U+00A0".  The tables of Unicode 14.0.0 and of html.entities are  *)
(* those of the interpreter (Python 3.11).                                 *)
(***************************************************************************)
EXTENDS Integers, Sequences, FiniteSets, TLC

\* ------------------------------------------------------------------------
\* Bounds of the model
\* ------------------------------------------------------------------------

\* largest --max-records value tried (0..MaxCap, plus "no cap")
MaxCap == 3

\* most full pages of DefaultMaxRecordCount rows a catalog of the model holds
MaxFullPages == 2

\* number of search areas given to main
NumAreas == 2

\* number of owner rows handed to _build_owner_registry
MaxRows == 3

\* ------------------------------------------------------------------------
\* Program constants
\* ------------------------------------------------------------------------

\* fallback page size of _initial_page_size
DefaultMaxRecordCount == 1000

\* the caps below zero that are tried: -1 down to -MaxBelowZero
MaxBelowZero == 1

\* max_records = None; a cap of n records is <<n>>
NoCap == <<>>

\* first data row of a sheet (row 1 holds the headers)
FirstDataRow == 2

\* minimum number of digits of an owner id (format spec 04d)
OwnerIdWidth == 4

\* owner["excel_row"] = None: no sheet row yet
NoRow == 0

\* ------------------------------------------------------------------------
\* Characters and texts (chr, ord, str.strip, str.upper, str.lower,
\* str.title, ordering of str)
\* ------------------------------------------------------------------------

\* F(e), with e evaluated once before F is applied
Strictly(F(_), e) == CHOOSE r \in {F(x) : x \in {e}} : TRUE

\* the outcome of a call that returns a value
Returned(value) == [raised |-> "none", value |-> value]

\* the outcome of a call that raises ValueError: nothing is returned
ValueError == [raised |-> "ValueError", value |-> <<>>]

Min(a, b) == IF a < b THEN a ELSE b

\* the printable characters of ASCII in code point order, from code point 32
\* on, but for the grave accent (code point 96), which no string of a module
\* can hold
CharOrder ==
    <<" ", "!", "\"", "#", "$", "%", "&", "'", "(", ")", "*", "+", ",", "-", ".", "/",
      "0", "1", "2", "3", "4", "5", "6", "7", "8", "9", ":", ";", "<", "=", ">", "?",
      "@", "A", "B", "C", "D", "E", "F", "G", "H", "I", "J", "K", "L", "M", "N", "O",
      "P", "Q", "R", "S", "T", "U", "V", "W", "X", "Y", "Z", "[", "\\", "]", "^", "_",
      "a", "b", "c", "d", "e", "f", "g", "h", "i", "j", "k", "l", "m", "n", "o", "p",
      "q", "r", "s", "t", "u", "v", "w", "x", "y", "z", "{", "|", "}", "~">>

HexDigits ==
    <<"0", "1", "2", "3", "4", "5", "6", "7", "8", "9", "A", "B", "C", "D", "E", "F">>

\* a code point in hexadecimal, of four digits at least
HexText(n) ==
    LET d(k) == HexDigits[((n \div (16 ^ k)) % 16) + 1]
    IN  (IF n >= 1048576 THEN d(5) ELSE "") \o (IF n >= 65536 THEN d(4) ELSE "")
            \o d(3) \o d(2) \o d(1) \o d(0)

\* chr(n).  A character of CharOrder is the string that holds it; any other
\* character is named by its code point: the tab is "U+0009", the grave
\* accent "U+0060", the no-break space "U+00A0".
chr(n) ==
    IF n >= 32 /\ n <= 95 THEN CharOrder[n - 31]
    ELSE IF n >= 97 /\ n <= 126 THEN CharOrder[n - 32]
    ELSE "U+" \o HexText(n)

\* whether the character is one of CharOrder
IsPlain(c) == Len(c) = 1

\* ord(c)
Ord(c) ==
    IF IsPlain(c)
    THEN LET i == CHOOSE i \in 1..Len(CharOrder) : CharOrder[i] = c
         IN  IF i <= 64 THEN i + 31 ELSE i + 32
    ELSE CHOOSE n \in (CASE Len(c) = 6 -> 0..65535
                         [] Len(c) = 7 -> 65536..1048575
                         [] OTHER -> 1048576..1114111) : chr(n) = c

\* the texts of a sequence of texts, one after the other
RECURSIVE FlattenRange(_, _, _)
FlattenRange(parts, lo, hi) ==
    IF lo > hi THEN <<>>
    ELSE IF lo = hi THEN parts[lo]
    ELSE FlattenRange(parts, lo, (lo + hi) \div 2)
             \o FlattenRange(parts, ((lo + hi) \div 2) + 1, hi)

Flatten(parts) == FlattenRange(parts, 1, Len(parts))

\* The tables of Unicode 14.0.0 and of the module html that follow are
\* written as lines of fields of a fixed number of places, a field filled up
\* with blanks.

\* the characters str.isspace() holds for, which are those the class \s of a
\* str pattern matches
Whitespace ==
    {"U+0009", "U+000A", "U+000B", "U+000C", "U+000D", "U+001C", "U+001D",
     "U+001E", "U+001F", " ", "U+0085", "U+00A0", "U+1680", "U+2000",
     "U+2001", "U+2002", "U+2003", "U+2004", "U+2005", "U+2006", "U+2007",
     "U+2008", "U+2009", "U+200A", "U+2028", "U+2029", "U+202F", "U+205F",
     "U+3000"}

\* the decimal digit characters (category Nd), which the class \d of a str
\* pattern matches, each with the digit of ASCII int() and float() read it as
\* (a key of 7 places and a field of 1 place for the digit)
DecimalData ==
    "0      01      12      23      34      45      56      67      78      89      9U+0660 0U+0661 1U+0662 2U+0663 3U+0664 4U+0665 5U+0666 6U+0667 7U+0668 8U+0669 9U+06F0 0U+06F1 1U+06F2 2U+06F3 3U+06F4 4U+06F5 5U+06F6 6U+06F7 7U+06F8 8U+06F9 9U+07C0 0U+07C1 1U+07C2 2U+07C3 3U+07C4 4U+07C5 5U+07C6 6U+07C7 7U+07C8 8U+07C9 9U+0966 0U+0967 1U+0968 2U+0969 3U+096A 4U+096B 5U+096C 6U+096D 7U+096E 8U+096F 9U+09E6 0U+09E7 1U+09E8 2U+09E9 3U+09EA 4U+09EB 5U+09EC 6U+09ED 7U+09EE 8U+09EF 9U+0A66 0U+0A67 1U+0A68 2U+0A69 3U+0A6A 4U+0A6B 5U+0A6C 6U+0A6D 7U+0A6E 8U+0A6F 9U+0AE6 0U+0AE7 1U+0AE8 2U+0AE9 3U+0AEA 4U+0AEB 5U+0AEC 6U+0AED 7U+0AEE 8U+0AEF 9U+0B66 0U+0B67 1U+0B68 2U+0B69 3U+0B6A 4U+0B6B 5U+0B6C 6U+0B6D 7U+0B6E 8U+0B6F 9U+0BE6 0U+0BE7 1U+0BE8 2U+0BE9 3U+0BEA 4U+0BEB 5U+0BEC 6U+0BED 7U+0BEE 8U+0BEF 9U+0C66 0U+0C67 1U+0C68 2U+0C69 3U+0C6A 4U+0C6B 5U+0C6C 6U+0C6D 7U+0C6E 8U+0C6F 9U+0CE6 0U+0CE7 1U+0CE8 2U+0CE9 3U+0CEA 4U+0CEB 5U+0CEC 6U+0CED 7U+0CEE 8U+0CEF 9U+0D66 0U+0D67 1U+0D68 2U+0D69 3U+0D6A 4U+0D6B 5U+0D6C 6U+0D6D 7U+0D6E 8U+0D6F 9U+0DE6 0U+0DE7 1U+0DE8 2U+0DE9 3U+0DEA 4U+0DEB 5U+0DEC 6U+0DED 7U+0DEE 8U+0DEF 9U+0E50 0U+0E51 1U+0E52 2U+0E53 3U+0E54 4U+0E55 5U+0E56 6U+0E57 7U+0E58 8U+0E59 9U+0ED0 0U+0ED1 1U+0ED2 2U+0ED3 3U+0ED4 4U+0ED5 5U+0ED6 6U+0ED7 7U+0ED8 8U+0ED9 9U+0F20 0U+0F21 1U+0F22 2U+0F23 3U+0F24 4U+0F25 5U+0F26 6U+0F27 7U+0F28 8U+0F29 9U+1040 0U+1041 1U+1042 2U+1043 3U+1044 4U+1045 5U+1046 6U+1047 7U+1048 8U+1049 9U+1090 0U+1091 1U+1092 2U+1093 3U+1094 4U+1095 5U+1096 6U+1097 7U+1098 8U+1099 9U+17E0 0U+17E1 1U+17E2 2U+17E3 3U+17E4 4U+17E5 5U+17E6 6U+17E7 7U+17E8 8U+17E9 9U+1810 0U+1811 1U+1812 2U+1813 3U+1814 4U+1815 5U+1816 6U+1817 7U+1818 8U+1819 9U+1946 0U+1947 1U+1948 2U+1949 3U+194A 4U+194B 5U+194C 6U+194D 7U+194E 8U+194F 9U+19D0 0U+19D1 1U+19D2 2U+19D3 3U+19D4 4U+19D5 5U+19D6 6U+19D7 7U+19D8 8U+19D9 9U+1A80 0U+1A81 1U+1A82 2U+1A83 3U+1A84 4U+1A85 5U+1A86 6U+1A87 7U+1A88 8U+1A89 9U+1A90 0U+1A91 1U+1A92 2U+1A93 3U+1A94 4U+1A95 5U+1A96 6U+1A97 7U+1A98 8U+1A99 9U+1B50 0U+1B51 1U+1B52 2U+1B53 3U+1B54 4U+1B55 5U+1B56 6U+1B57 7U+1B58 8U+1B59 9U+1BB0 0U+1BB1 1U+1BB2 2U+1BB3 3U+1BB4 4U+1BB5 5U+1BB6 6U+1BB7 7U+1BB8 8U+1BB9 9U+1C40 0U+1C41 1U+1C42 2U+1C43 3U+1C44 4U+1C45 5U+1C46 6U+1C47 7U+1C48 8U+1C49 9U+1C50 0U+1C51 1U+1C52 2U+1C53 3U+1C54 4U+1C55 5U+1C56 6U+1C57 7U+1C58 8U+1C59 9U+A620 0U+A621 1U+A622 2U+A623 3U+A624 4U+A625 5U+A626 6U+A627 7U+A628 8U+A629 9U+A8D0 0U+A8D1 1U+A8D2 2U+A8D3 3U+A8D4 4U+A8D5 5U+A8D6 6U+A8D7 7U+A8D8 8U+A8D9 9U+A900 0U+A901 1U+A902 2U+A903 3U+A904 4U+A905 5U+A906 6U+A907 7U+A908 8U+A909 9U+A9D0 0U+A9D1 1U+A9D2 2U+A9D3 3U+A9D4 4U+A9D5 5U+A9D6 6U+A9D7 7U+A9D8 8U+A9D9 9U+A9F0 0U+A9F1 1U+A9F2 2U+A9F3 3U+A9F4 4U+A9F5 5U+A9F6 6U+A9F7 7U+A9F8 8U+A9F9 9U+AA50 0U+AA51 1U+AA52 2U+AA53 3U+AA54 4U+AA55 5U+AA56 6U+AA57 7U+AA58 8U+AA59 9U+ABF0 0U+ABF1 1U+ABF2 2U+ABF3 3U+ABF4 4U+ABF5 5U+ABF6 6U+ABF7 7U+ABF8 8U+ABF9 9U+FF10 0U+FF11 1U+FF12 2U+FF13 3U+FF14 4U+FF15 5U+FF16 6U+FF17 7U+FF18 8U+FF19 9U+104A00U+104A11U+104A22U+104A33U+104A44U+104A55U+104A66U+104A77U+104A88U+104A99U+10D300U+10D311U+10D322U+10D333U+10D344U+10D355U+10D366U+10D377U+10D388U+10D399U+110660U+110671U+110682U+110693U+1106A4U+1106B5U+1106C6U+1106D7U+1106E8U+1106F9U+110F00U+110F11U+110F22U+110F33U+110F44U+110F55U+110F66U+110F77U+110F88U+110F99U+111360U+111371U+111382U+111393U+1113A4U+1113B5U+1113C6U+1113D7U+1113E8U+1113F9U+111D00U+111D11U+111D22U+111D33U+111D44U+111D55U+111D66U+111D77U+111D88U+111D99U+112F00U+112F11U+112F22U+112F33U+112F44U+112F55U+112F66U+112F77U+112F88U+112F99U+114500U+114511U+114522U+114533U+114544U+114555U+114566U+114577U+114588U+114599U+114D00U+114D11U+114D22U+114D33U+114D44U+114D55U+114D66U+114D77U+114D88U+114D99U+116500U+116511U+116522U+116533U+116544U+116555U+116566U+116577U+116588U+116599U+116C00U+116C11U+116C22U+116C33U+116C44U+116C55U+116C66U+116C77U+116C88U+116C99U+117300U+117311U+117322U+117333U+117344U+117355U+117366U+117377U+117388U+117399U+118E00U+118E11U+118E22U+118E33U+118E44U+118E55U+118E66U+118E77U+118E88U+118E99"
    \o "U+119500U+119511U+119522U+119533U+119544U+119555U+119566U+119577U+119588U+119599U+11C500U+11C511U+11C522U+11C533U+11C544U+11C555U+11C566U+11C577U+11C588U+11C599U+11D500U+11D511U+11D522U+11D533U+11D544U+11D555U+11D566U+11D577U+11D588U+11D599U+11DA00U+11DA11U+11DA22U+11DA33U+11DA44U+11DA55U+11DA66U+11DA77U+11DA88U+11DA99U+16A600U+16A611U+16A622U+16A633U+16A644U+16A655U+16A666U+16A677U+16A688U+16A699U+16AC00U+16AC11U+16AC22U+16AC33U+16AC44U+16AC55U+16AC66U+16AC77U+16AC88U+16AC99U+16B500U+16B511U+16B522U+16B533U+16B544U+16B555U+16B566U+16B577U+16B588U+16B599U+1D7CE0U+1D7CF1U+1D7D02U+1D7D13U+1D7D24U+1D7D35U+1D7D46U+1D7D57U+1D7D68U+1D7D79U+1D7D80U+1D7D91U+1D7DA2U+1D7DB3U+1D7DC4U+1D7DD5U+1D7DE6U+1D7DF7U+1D7E08U+1D7E19U+1D7E20U+1D7E31U+1D7E42U+1D7E53U+1D7E64U+1D7E75U+1D7E86U+1D7E97U+1D7EA8U+1D7EB9U+1D7EC0U+1D7ED1U+1D7EE2U+1D7EF3U+1D7F04U+1D7F15U+1D7F26U+1D7F37U+1D7F48U+1D7F59U+1D7F60U+1D7F71U+1D7F82U+1D7F93U+1D7FA4U+1D7FB5U+1D7FC6U+1D7FD7U+1D7FE8U+1D7FF9U+1E1400U+1E1411U+1E1422U+1E1433U+1E1444U+1E1455U+1E1466U+1E1477U+1E1488U+1E1499U+1E2F00U+1E2F11U+1E2F22U+1E2F33U+1E2F44U+1E2F55U+1E2F66U+1E2F77U+1E2F88U+1E2F99U+1E9500U+1E9511U+1E9522U+1E9533U+1E9544U+1E9555U+1E9566U+1E9577U+1E9588U+1E9599U+1FBF00U+1FBF11U+1FBF22U+1FBF33U+1FBF44U+1FBF55U+1FBF66U+1FBF77U+1FBF88U+1FBF99"

\* the cased characters, which are those str.title() lowers the next
\* character after (fields of 7 places)
CasedData ==
    "A      B      C      D      E      F      G      H      I      J      K      L      M      N      O      P      Q      R      S      T      U      V      W      X      Y      Z      a      b      c      d      e      f      g      h      i      j      k      l      m      n      o      p      q      r      s      t      u      v      w      x      y      z      U+00AA U+00B5 U+00BA U+00C0 U+00C1 U+00C2 U+00C3 U+00C4 U+00C5 U+00C6 U+00C7 U+00C8 U+00C9 U+00CA U+00CB U+00CC U+00CD U+00CE U+00CF U+00D0 U+00D1 U+00D2 U+00D3 U+00D4 U+00D5 U+00D6 U+00D8 U+00D9 U+00DA U+00DB U+00DC U+00DD U+00DE U+00DF U+00E0 U+00E1 U+00E2 U+00E3 U+00E4 U+00E5 U+00E6 U+00E7 U+00E8 U+00E9 U+00EA U+00EB U+00EC U+00ED U+00EE U+00EF U+00F0 U+00F1 U+00F2 U+00F3 U+00F4 U+00F5 U+00F6 U+00F8 U+00F9 U+00FA U+00FB U+00FC U+00FD U+00FE U+00FF U+0100 U+0101 U+0102 U+0103 U+0104 U+0105 U+0106 U+0107 U+0108 U+0109 U+010A U+010B U+010C U+010D U+010E U+010F U+0110 U+0111 U+0112 U+0113 U+0114 U+0115 U+0116 U+0117 U+0118 U+0119 U+011A U+011B U+011C U+011D U+011E U+011F U+0120 U+0121 U+0122 U+0123 U+0124 U+0125 U+0126 U+0127 U+0128 U+0129 U+012A U+012B U+012C U+012D U+012E U+012F U+0130 U+0131 U+0132 U+0133 U+0134 U+0135 U+0136 U+0137 U+0138 U+0139 U+013A U+013B U+013C U+013D U+013E U+013F U+0140 U+0141 U+0142 U+0143 U+0144 U+0145 U+0146 U+0147 U+0148 U+0149 U+014A U+014B U+014C U+014D U+014E U+014F U+0150 U+0151 U+0152 U+0153 U+0154 U+0155 U+0156 U+0157 U+0158 U+0159 U+015A U+015B U+015C U+015D U+015E U+015F U+0160 U+0161 U+0162 U+0163 U+0164 U+0165 U+0166 U+0167 U+0168 U+0169 U+016A U+016B U+016C U+016D U+016E U+016F U+0170 U+0171 U+0172 U+0173 U+0174 U+0175 U+0176 U+0177 U+0178 U+0179 U+017A U+017B U+017C U+017D U+017E U+017F U+0180 U+0181 U+0182 U+0183 U+0184 U+0185 U+0186 U+0187 U+0188 U+0189 U+018A U+018B U+018C U+018D U+018E U+018F U+0190 U+0191 U+0192 U+0193 U+0194 U+0195 U+0196 U+0197 U+0198 U+0199 U+019A U+019B U+019C U+019D U+019E U+019F U+01A0 U+01A1 U+01A2 U+01A3 U+01A4 U+01A5 U+01A6 U+01A7 U+01A8 U+01A9 U+01AA U+01AB U+01AC U+01AD U+01AE U+01AF U+01B0 U+01B1 U+01B2 U+01B3 U+01B4 U+01B5 U+01B6 U+01B7 U+01B8 U+01B9 U+01BA U+01BC U+01BD U+01BE U+01BF U+01C4 U+01C5 U+01C6 U+01C7 U+01C8 U+01C9 U+01CA U+01CB U+01CC U+01CD U+01CE U+01CF U+01D0 U+01D1 U+01D2 U+01D3 U+01D4 U+01D5 U+01D6 U+01D7 U+01D8 U+01D9 U+01DA U+01DB U+01DC U+01DD U+01DE U+01DF U+01E0 U+01E1 U+01E2 U+01E3 U+01E4 U+01E5 U+01E6 U+01E7 U+01E8 U+01E9 U+01EA U+01EB U+01EC U+01ED U+01EE U+01EF U+01F0 U+01F1 U+01F2 U+01F3 U+01F4 U+01F5 U+01F6 U+01F7 U+01F8 U+01F9 U+01FA U+01FB U+01FC U+01FD U+01FE U+01FF U+0200 U+0201 U+0202 U+0203 U+0204 U+0205 U+0206 U+0207 U+0208 U+0209 U+020A U+020B U+020C U+020D U+020E U+020F U+0210 U+0211 U+0212 U+0213 U+0214 U+0215 U+0216 U+0217 U+0218 U+0219 U+021A U+021B U+021C U+021D U+021E U+021F U+0220 U+0221 U+0222 U+0223 U+0224 U+0225 U+0226 U+0227 U+0228 U+0229 U+022A U+022B U+022C U+022D U+022E U+022F U+0230 U+0231 U+0232 U+0233 U+0234 U+0235 U+0236 U+0237 U+0238 U+0239 U+023A U+023B U+023C U+023D U+023E U+023F U+0240 U+0241 U+0242 U+0243 U+0244 U+0245 U+0246 U+0247 U+0248 U+0249 U+024A U+024B U+024C U+024D U+024E U+024F U+0250 U+0251 U+0252 U+0253 U+0254 U+0255 U+0256 U+0257 U+0258 U+0259 U+025A U+025B U+025C U+025D U+025E U+025F U+0260 U+0261 U+0262 U+0263 U+0264 U+0265 U+0266 U+0267 U+0268 U+0269 U+026A U+026B U+026C U+026D U+026E U+026F U+0270 U+0271 U+0272 U+0273 U+0274 U+0275 U+0276 U+0277 U+0278 U+0279 U+027A U+027B U+027C U+027D U+027E U+027F U+0280 U+0281 U+0282 U+0283 U+0284 U+0285 U+0286 U+0287 U+0288 U+0289 U+028A U+028B U+028C U+028D U+028E U+028F U+0290 U+0291 U+0292 U+0293 U+0295 U+0296 U+0297 U+0298 U+0299 U+029A U+029B U+029C U+029D U+029E U+029F U+02A0 U+02A1 U+02A2 U+02A3 U+02A4 U+02A5 U+02A6 U+02A7 U+02A8 U+02A9 U+02AA U+02AB U+02AC U+02AD U+02AE U+02AF U+02B0 U+02B1 U+02B2 U+02B3 U+02B4 U+02B5 U+02B6 U+02B7 U+02B8 U+02C0 U+02C1 U+02E0 U+02E1 U+02E2 U+02E3 U+02E4 U+0345 U+0370 U+0371 U+0372 U+0373 U+0376 U+0377 U+037A U+037B U+037C U+037D U+037F "
    \o "U+0386 U+0388 U+0389 U+038A U+038C U+038E U+038F U+0390 U+0391 U+0392 U+0393 U+0394 U+0395 U+0396 U+0397 U+0398 U+0399 U+039A U+039B U+039C U+039D U+039E U+039F U+03A0 U+03A1 U+03A3 U+03A4 U+03A5 U+03A6 U+03A7 U+03A8 U+03A9 U+03AA U+03AB U+03AC U+03AD U+03AE U+03AF U+03B0 U+03B1 U+03B2 U+03B3 U+03B4 U+03B5 U+03B6 U+03B7 U+03B8 U+03B9 U+03BA U+03BB U+03BC U+03BD U+03BE U+03BF U+03C0 U+03C1 U+03C2 U+03C3 U+03C4 U+03C5 U+03C6 U+03C7 U+03C8 U+03C9 U+03CA U+03CB U+03CC U+03CD U+03CE U+03CF U+03D0 U+03D1 U+03D2 U+03D3 U+03D4 U+03D5 U+03D6 U+03D7 U+03D8 U+03D9 U+03DA U+03DB U+03DC U+03DD U+03DE U+03DF U+03E0 U+03E1 U+03E2 U+03E3 U+03E4 U+03E5 U+03E6 U+03E7 U+03E8 U+03E9 U+03EA U+03EB U+03EC U+03ED U+03EE U+03EF U+03F0 U+03F1 U+03F2 U+03F3 U+03F4 U+03F5 U+03F7 U+03F8 U+03F9 U+03FA U+03FB U+03FC U+03FD U+03FE U+03FF U+0400 U+0401 U+0402 U+0403 U+0404 U+0405 U+0406 U+0407 U+0408 U+0409 U+040A U+040B U+040C U+040D U+040E U+040F U+0410 U+0411 U+0412 U+0413 U+0414 U+0415 U+0416 U+0417 U+0418 U+0419 U+041A U+041B U+041C U+041D U+041E U+041F U+0420 U+0421 U+0422 U+0423 U+0424 U+0425 U+0426 U+0427 U+0428 U+0429 U+042A U+042B U+042C U+042D U+042E U+042F U+0430 U+0431 U+0432 U+0433 U+0434 U+0435 U+0436 U+0437 U+0438 U+0439 U+043A U+043B U+043C U+043D U+043E U+043F U+0440 U+0441 U+0442 U+0443 U+0444 U+0445 U+0446 U+0447 U+0448 U+0449 U+044A U+044B U+044C U+044D U+044E U+044F U+0450 U+0451 U+0452 U+0453 U+0454 U+0455 U+0456 U+0457 U+0458 U+0459 U+045A U+045B U+045C U+045D U+045E U+045F U+0460 U+0461 U+0462 U+0463 U+0464 U+0465 U+0466 U+0467 U+0468 U+0469 U+046A U+046B U+046C U+046D U+046E U+046F U+0470 U+0471 U+0472 U+0473 U+0474 U+0475 U+0476 U+0477 U+0478 U+0479 U+047A U+047B U+047C U+047D U+047E U+047F U+0480 U+0481 U+048A U+048B U+048C U+048D U+048E U+048F U+0490 U+0491 U+0492 U+0493 U+0494 U+0495 U+0496 U+0497 U+0498 U+0499 U+049A U+049B U+049C U+049D U+049E U+049F U+04A0 U+04A1 U+04A2 U+04A3 U+04A4 U+04A5 U+04A6 U+04A7 U+04A8 U+04A9 U+04AA U+04AB U+04AC U+04AD U+04AE U+04AF U+04B0 U+04B1 U+04B2 U+04B3 U+04B4 U+04B5 U+04B6 U+04B7 U+04B8 U+04B9 U+04BA U+04BB U+04BC U+04BD U+04BE U+04BF U+04C0 U+04C1 U+04C2 U+04C3 U+04C4 U+04C5 U+04C6 U+04C7 U+04C8 U+04C9 U+04CA U+04CB U+04CC U+04CD U+04CE U+04CF U+04D0 U+04D1 U+04D2 U+04D3 U+04D4 U+04D5 U+04D6 U+04D7 U+04D8 U+04D9 U+04DA U+04DB U+04DC U+04DD U+04DE U+04DF U+04E0 U+04E1 U+04E2 U+04E3 U+04E4 U+04E5 U+04E6 U+04E7 U+04E8 U+04E9 U+04EA U+04EB U+04EC U+04ED U+04EE U+04EF U+04F0 U+04F1 U+04F2 U+04F3 U+04F4 U+04F5 U+04F6 U+04F7 U+04F8 U+04F9 U+04FA U+04FB U+04FC U+04FD U+04FE U+04FF U+0500 U+0501 U+0502 U+0503 U+0504 U+0505 U+0506 U+0507 U+0508 U+0509 U+050A U+050B U+050C U+050D U+050E U+050F U+0510 U+0511 U+0512 U+0513 U+0514 U+0515 U+0516 U+0517 U+0518 U+0519 U+051A U+051B U+051C U+051D U+051E U+051F U+0520 U+0521 U+0522 U+0523 U+0524 U+0525 U+0526 U+0527 U+0528 U+0529 U+052A U+052B U+052C U+052D U+052E U+052F U+0531 U+0532 U+0533 U+0534 U+0535 U+0536 U+0537 U+0538 U+0539 U+053A U+053B U+053C U+053D U+053E U+053F U+0540 U+0541 U+0542 U+0543 U+0544 U+0545 U+0546 U+0547 U+0548 U+0549 U+054A U+054B U+054C U+054D U+054E U+054F U+0550 U+0551 U+0552 U+0553 U+0554 U+0555 U+0556 U+0560 U+0561 U+0562 U+0563 U+0564 U+0565 U+0566 U+0567 U+0568 U+0569 U+056A U+056B U+056C U+056D U+056E U+056F U+0570 U+0571 U+0572 U+0573 U+0574 U+0575 U+0576 U+0577 U+0578 U+0579 U+057A U+057B U+057C U+057D U+057E U+057F U+0580 U+0581 U+0582 U+0583 U+0584 U+0585 U+0586 U+0587 U+0588 U+10A0 U+10A1 U+10A2 U+10A3 U+10A4 U+10A5 U+10A6 U+10A7 U+10A8 U+10A9 U+10AA U+10AB U+10AC U+10AD U+10AE U+10AF U+10B0 U+10B1 U+10B2 U+10B3 U+10B4 U+10B5 U+10B6 U+10B7 U+10B8 U+10B9 U+10BA U+10BB U+10BC U+10BD U+10BE U+10BF U+10C0 U+10C1 U+10C2 U+10C3 U+10C4 U+10C5 U+10C7 U+10CD U+10D0 U+10D1 U+10D2 U+10D3 U+10D4 U+10D5 U+10D6 U+10D7 U+10D8 U+10D9 U+10DA U+10DB U+10DC U+10DD U+10DE U+10DF U+10E0 U+10E1 U+10E2 U+10E3 U+10E4 U+10E5 U+10E6 U+10E7 U+10E8 U+10E9 U+10EA U+10EB U+10EC U+10ED U+10EE U+10EF U+10F0 U+10F1 U+10F2 U+10F3 U+10F4 U+10F5 U+10F6 "
    \o "U+10F7 U+10F8 U+10F9 U+10FA U+10FD U+10FE U+10FF U+13A0 U+13A1 U+13A2 U+13A3 U+13A4 U+13A5 U+13A6 U+13A7 U+13A8 U+13A9 U+13AA U+13AB U+13AC U+13AD U+13AE U+13AF U+13B0 U+13B1 U+13B2 U+13B3 U+13B4 U+13B5 U+13B6 U+13B7 U+13B8 U+13B9 U+13BA U+13BB U+13BC U+13BD U+13BE U+13BF U+13C0 U+13C1 U+13C2 U+13C3 U+13C4 U+13C5 U+13C6 U+13C7 U+13C8 U+13C9 U+13CA U+13CB U+13CC U+13CD U+13CE U+13CF U+13D0 U+13D1 U+13D2 U+13D3 U+13D4 U+13D5 U+13D6 U+13D7 U+13D8 U+13D9 U+13DA U+13DB U+13DC U+13DD U+13DE U+13DF U+13E0 U+13E1 U+13E2 U+13E3 U+13E4 U+13E5 U+13E6 U+13E7 U+13E8 U+13E9 U+13EA U+13EB U+13EC U+13ED U+13EE U+13EF U+13F0 U+13F1 U+13F2 U+13F3 U+13F4 U+13F5 U+13F8 U+13F9 U+13FA U+13FB U+13FC U+13FD U+1C80 U+1C81 U+1C82 U+1C83 U+1C84 U+1C85 U+1C86 U+1C87 U+1C88 U+1C90 U+1C91 U+1C92 U+1C93 U+1C94 U+1C95 U+1C96 U+1C97 U+1C98 U+1C99 U+1C9A U+1C9B U+1C9C U+1C9D U+1C9E U+1C9F U+1CA0 U+1CA1 U+1CA2 U+1CA3 U+1CA4 U+1CA5 U+1CA6 U+1CA7 U+1CA8 U+1CA9 U+1CAA U+1CAB U+1CAC U+1CAD U+1CAE U+1CAF U+1CB0 U+1CB1 U+1CB2 U+1CB3 U+1CB4 U+1CB5 U+1CB6 U+1CB7 U+1CB8 U+1CB9 U+1CBA U+1CBD U+1CBE U+1CBF U+1D00 U+1D01 U+1D02 U+1D03 U+1D04 U+1D05 U+1D06 U+1D07 U+1D08 U+1D09 U+1D0A U+1D0B U+1D0C U+1D0D U+1D0E U+1D0F U+1D10 U+1D11 U+1D12 U+1D13 U+1D14 U+1D15 U+1D16 U+1D17 U+1D18 U+1D19 U+1D1A U+1D1B U+1D1C U+1D1D U+1D1E U+1D1F U+1D20 U+1D21 U+1D22 U+1D23 U+1D24 U+1D25 U+1D26 U+1D27 U+1D28 U+1D29 U+1D2A U+1D2B U+1D2C U+1D2D U+1D2E U+1D2F U+1D30 U+1D31 U+1D32 U+1D33 U+1D34 U+1D35 U+1D36 U+1D37 U+1D38 U+1D39 U+1D3A U+1D3B U+1D3C U+1D3D U+1D3E U+1D3F U+1D40 U+1D41 U+1D42 U+1D43 U+1D44 U+1D45 U+1D46 U+1D47 U+1D48 U+1D49 U+1D4A U+1D4B U+1D4C U+1D4D U+1D4E U+1D4F U+1D50 U+1D51 U+1D52 U+1D53 U+1D54 U+1D55 U+1D56 U+1D57 U+1D58 U+1D59 U+1D5A U+1D5B U+1D5C U+1D5D U+1D5E U+1D5F U+1D60 U+1D61 U+1D62 U+1D63 U+1D64 U+1D65 U+1D66 U+1D67 U+1D68 U+1D69 U+1D6A U+1D6B U+1D6C U+1D6D U+1D6E U+1D6F U+1D70 U+1D71 U+1D72 U+1D73 U+1D74 U+1D75 U+1D76 U+1D77 U+1D78 U+1D79 U+1D7A U+1D7B U+1D7C U+1D7D U+1D7E U+1D7F U+1D80 U+1D81 U+1D82 U+1D83 U+1D84 U+1D85 U+1D86 U+1D87 U+1D88 U+1D89 U+1D8A U+1D8B U+1D8C U+1D8D U+1D8E U+1D8F U+1D90 U+1D91 U+1D92 U+1D93 U+1D94 U+1D95 U+1D96 U+1D97 U+1D98 U+1D99 U+1D9A U+1D9B U+1D9C U+1D9D U+1D9E U+1D9F U+1DA0 U+1DA1 U+1DA2 U+1DA3 U+1DA4 U+1DA5 U+1DA6 U+1DA7 U+1DA8 U+1DA9 U+1DAA U+1DAB U+1DAC U+1DAD U+1DAE U+1DAF U+1DB0 U+1DB1 U+1DB2 U+1DB3 U+1DB4 U+1DB5 U+1DB6 U+1DB7 U+1DB8 U+1DB9 U+1DBA U+1DBB U+1DBC U+1DBD U+1DBE U+1DBF U+1E00 U+1E01 U+1E02 U+1E03 U+1E04 U+1E05 U+1E06 U+1E07 U+1E08 U+1E09 U+1E0A U+1E0B U+1E0C U+1E0D U+1E0E U+1E0F U+1E10 U+1E11 U+1E12 U+1E13 U+1E14 U+1E15 U+1E16 U+1E17 U+1E18 U+1E19 U+1E1A U+1E1B U+1E1C U+1E1D U+1E1E U+1E1F U+1E20 U+1E21 U+1E22 U+1E23 U+1E24 U+1E25 U+1E26 U+1E27 U+1E28 U+1E29 U+1E2A U+1E2B U+1E2C U+1E2D U+1E2E U+1E2F U+1E30 U+1E31 U+1E32 U+1E33 U+1E34 U+1E35 U+1E36 U+1E37 U+1E38 U+1E39 U+1E3A U+1E3B U+1E3C U+1E3D U+1E3E U+1E3F U+1E40 U+1E41 U+1E42 U+1E43 U+1E44 U+1E45 U+1E46 U+1E47 U+1E48 U+1E49 U+1E4A U+1E4B U+1E4C U+1E4D U+1E4E U+1E4F U+1E50 U+1E51 U+1E52 U+1E53 U+1E54 U+1E55 U+1E56 U+1E57 U+1E58 U+1E59 U+1E5A U+1E5B U+1E5C U+1E5D U+1E5E U+1E5F U+1E60 U+1E61 U+1E62 U+1E63 U+1E64 U+1E65 U+1E66 U+1E67 U+1E68 U+1E69 U+1E6A U+1E6B U+1E6C U+1E6D U+1E6E U+1E6F U+1E70 U+1E71 U+1E72 U+1E73 U+1E74 U+1E75 U+1E76 U+1E77 U+1E78 U+1E79 U+1E7A U+1E7B U+1E7C U+1E7D U+1E7E U+1E7F U+1E80 U+1E81 U+1E82 U+1E83 U+1E84 U+1E85 U+1E86 U+1E87 U+1E88 U+1E89 U+1E8A U+1E8B U+1E8C U+1E8D U+1E8E U+1E8F U+1E90 U+1E91 U+1E92 U+1E93 U+1E94 U+1E95 U+1E96 U+1E97 U+1E98 U+1E99 U+1E9A U+1E9B U+1E9C U+1E9D U+1E9E U+1E9F U+1EA0 U+1EA1 U+1EA2 U+1EA3 U+1EA4 U+1EA5 U+1EA6 U+1EA7 U+1EA8 U+1EA9 U+1EAA U+1EAB U+1EAC U+1EAD U+1EAE U+1EAF U+1EB0 U+1EB1 U+1EB2 U+1EB3 U+1EB4 U+1EB5 U+1EB6 U+1EB7 U+1EB8 U+1EB9 U+1EBA U+1EBB U+1EBC U+1EBD U+1EBE U+1EBF U+1EC0 U+1EC1 U+1EC2 U+1EC3 U+1EC4 U+1EC5 U+1EC6 U+1EC7 U+1EC8 U+1EC9 U+1ECA U+1ECB U+1ECC U+1ECD U+1ECE U+1ECF U+1ED0 U+1ED1 U+1ED2 U+1ED3 U+1ED4 U+1ED5 U+1ED6 U+1ED7 U+1ED8 U+1ED9 U+1EDA U+1EDB U+1EDC U+1EDD U+1EDE U+1EDF U+1EE0 "
    \o "U+1EE1 U+1EE2 U+1EE3 U+1EE4 U+1EE5 U+1EE6 U+1EE7 U+1EE8 U+1EE9 U+1EEA U+1EEB U+1EEC U+1EED U+1EEE U+1EEF U+1EF0 U+1EF1 U+1EF2 U+1EF3 U+1EF4 U+1EF5 U+1EF6 U+1EF7 U+1EF8 U+1EF9 U+1EFA U+1EFB U+1EFC U+1EFD U+1EFE U+1EFF U+1F00 U+1F01 U+1F02 U+1F03 U+1F04 U+1F05 U+1F06 U+1F07 U+1F08 U+1F09 U+1F0A U+1F0B U+1F0C U+1F0D U+1F0E U+1F0F U+1F10 U+1F11 U+1F12 U+1F13 U+1F14 U+1F15 U+1F18 U+1F19 U+1F1A U+1F1B U+1F1C U+1F1D U+1F20 U+1F21 U+1F22 U+1F23 U+1F24 U+1F25 U+1F26 U+1F27 U+1F28 U+1F29 U+1F2A U+1F2B U+1F2C U+1F2D U+1F2E U+1F2F U+1F30 U+1F31 U+1F32 U+1F33 U+1F34 U+1F35 U+1F36 U+1F37 U+1F38 U+1F39 U+1F3A U+1F3B U+1F3C U+1F3D U+1F3E U+1F3F U+1F40 U+1F41 U+1F42 U+1F43 U+1F44 U+1F45 U+1F48 U+1F49 U+1F4A U+1F4B U+1F4C U+1F4D U+1F50 U+1F51 U+1F52 U+1F53 U+1F54 U+1F55 U+1F56 U+1F57 U+1F59 U+1F5B U+1F5D U+1F5F U+1F60 U+1F61 U+1F62 U+1F63 U+1F64 U+1F65 U+1F66 U+1F67 U+1F68 U+1F69 U+1F6A U+1F6B U+1F6C U+1F6D U+1F6E U+1F6F U+1F70 U+1F71 U+1F72 U+1F73 U+1F74 U+1F75 U+1F76 U+1F77 U+1F78 U+1F79 U+1F7A U+1F7B U+1F7C U+1F7D U+1F80 U+1F81 U+1F82 U+1F83 U+1F84 U+1F85 U+1F86 U+1F87 U+1F88 U+1F89 U+1F8A U+1F8B U+1F8C U+1F8D U+1F8E U+1F8F U+1F90 U+1F91 U+1F92 U+1F93 U+1F94 U+1F95 U+1F96 U+1F97 U+1F98 U+1F99 U+1F9A U+1F9B U+1F9C U+1F9D U+1F9E U+1F9F U+1FA0 U+1FA1 U+1FA2 U+1FA3 U+1FA4 U+1FA5 U+1FA6 U+1FA7 U+1FA8 U+1FA9 U+1FAA U+1FAB U+1FAC U+1FAD U+1FAE U+1FAF U+1FB0 U+1FB1 U+1FB2 U+1FB3 U+1FB4 U+1FB6 U+1FB7 U+1FB8 U+1FB9 U+1FBA U+1FBB U+1FBC U+1FBE U+1FC2 U+1FC3 U+1FC4 U+1FC6 U+1FC7 U+1FC8 U+1FC9 U+1FCA U+1FCB U+1FCC U+1FD0 U+1FD1 U+1FD2 U+1FD3 U+1FD6 U+1FD7 U+1FD8 U+1FD9 U+1FDA U+1FDB U+1FE0 U+1FE1 U+1FE2 U+1FE3 U+1FE4 U+1FE5 U+1FE6 U+1FE7 U+1FE8 U+1FE9 U+1FEA U+1FEB U+1FEC U+1FF2 U+1FF3 U+1FF4 U+1FF6 U+1FF7 U+1FF8 U+1FF9 U+1FFA U+1FFB U+1FFC U+2071 U+207F U+2090 U+2091 U+2092 U+2093 U+2094 U+2095 U+2096 U+2097 U+2098 U+2099 U+209A U+209B U+209C U+2102 U+2107 U+210A U+210B U+210C U+210D U+210E U+210F U+2110 U+2111 U+2112 U+2113 U+2115 U+2119 U+211A U+211B U+211C U+211D U+2124 U+2126 U+2128 U+212A U+212B U+212C U+212D U+212F U+2130 U+2131 U+2132 U+2133 U+2134 U+2139 U+213C U+213D U+213E U+213F U+2145 U+2146 U+2147 U+2148 U+2149 U+214E U+2160 U+2161 U+2162 U+2163 U+2164 U+2165 U+2166 U+2167 U+2168 U+2169 U+216A U+216B U+216C U+216D U+216E U+216F U+2170 U+2171 U+2172 U+2173 U+2174 U+2175 U+2176 U+2177 U+2178 U+2179 U+217A U+217B U+217C U+217D U+217E U+217F U+2183 U+2184 U+24B6 U+24B7 U+24B8 U+24B9 U+24BA U+24BB U+24BC U+24BD U+24BE U+24BF U+24C0 U+24C1 U+24C2 U+24C3 U+24C4 U+24C5 U+24C6 U+24C7 U+24C8 U+24C9 U+24CA U+24CB U+24CC U+24CD U+24CE U+24CF U+24D0 U+24D1 U+24D2 U+24D3 U+24D4 U+24D5 U+24D6 U+24D7 U+24D8 U+24D9 U+24DA U+24DB U+24DC U+24DD U+24DE U+24DF U+24E0 U+24E1 U+24E2 U+24E3 U+24E4 U+24E5 U+24E6 U+24E7 U+24E8 U+24E9 U+2C00 U+2C01 U+2C02 U+2C03 U+2C04 U+2C05 U+2C06 U+2C07 U+2C08 U+2C09 U+2C0A U+2C0B U+2C0C U+2C0D U+2C0E U+2C0F U+2C10 U+2C11 U+2C12 U+2C13 U+2C14 U+2C15 U+2C16 U+2C17 U+2C18 U+2C19 U+2C1A U+2C1B U+2C1C U+2C1D U+2C1E U+2C1F U+2C20 U+2C21 U+2C22 U+2C23 U+2C24 U+2C25 U+2C26 U+2C27 U+2C28 U+2C29 U+2C2A U+2C2B U+2C2C U+2C2D U+2C2E U+2C2F U+2C30 U+2C31 U+2C32 U+2C33 U+2C34 U+2C35 U+2C36 U+2C37 U+2C38 U+2C39 U+2C3A U+2C3B U+2C3C U+2C3D U+2C3E U+2C3F U+2C40 U+2C41 U+2C42 U+2C43 U+2C44 U+2C45 U+2C46 U+2C47 U+2C48 U+2C49 U+2C4A U+2C4B U+2C4C U+2C4D U+2C4E U+2C4F U+2C50 U+2C51 U+2C52 U+2C53 U+2C54 U+2C55 U+2C56 U+2C57 U+2C58 U+2C59 U+2C5A U+2C5B U+2C5C U+2C5D U+2C5E U+2C5F U+2C60 U+2C61 U+2C62 U+2C63 U+2C64 U+2C65 U+2C66 U+2C67 U+2C68 U+2C69 U+2C6A U+2C6B U+2C6C U+2C6D U+2C6E U+2C6F U+2C70 U+2C71 U+2C72 U+2C73 U+2C74 U+2C75 U+2C76 U+2C77 U+2C78 U+2C79 U+2C7A U+2C7B U+2C7C U+2C7D U+2C7E U+2C7F U+2C80 U+2C81 U+2C82 U+2C83 U+2C84 U+2C85 U+2C86 U+2C87 U+2C88 U+2C89 U+2C8A U+2C8B U+2C8C U+2C8D U+2C8E U+2C8F U+2C90 U+2C91 U+2C92 U+2C93 U+2C94 U+2C95 U+2C96 U+2C97 U+2C98 U+2C99 U+2C9A U+2C9B U+2C9C U+2C9D U+2C9E U+2C9F U+2CA0 U+2CA1 U+2CA2 U+2CA3 U+2CA4 U+2CA5 U+2CA6 U+2CA7 U+2CA8 U+2CA9 U+2CAA U+2CAB U+2CAC U+2CAD U+2CAE U+2CAF U+2CB0 U+2CB1 U+2CB2 "
    \o "U+2CB3 U+2CB4 U+2CB5 U+2CB6 U+2CB7 U+2CB8 U+2CB9 U+2CBA U+2CBB U+2CBC U+2CBD U+2CBE U+2CBF U+2CC0 U+2CC1 U+2CC2 U+2CC3 U+2CC4 U+2CC5 U+2CC6 U+2CC7 U+2CC8 U+2CC9 U+2CCA U+2CCB U+2CCC U+2CCD U+2CCE U+2CCF U+2CD0 U+2CD1 U+2CD2 U+2CD3 U+2CD4 U+2CD5 U+2CD6 U+2CD7 U+2CD8 U+2CD9 U+2CDA U+2CDB U+2CDC U+2CDD U+2CDE U+2CDF U+2CE0 U+2CE1 U+2CE2 U+2CE3 U+2CE4 U+2CEB U+2CEC U+2CED U+2CEE U+2CF2 U+2CF3 U+2D00 U+2D01 U+2D02 U+2D03 U+2D04 U+2D05 U+2D06 U+2D07 U+2D08 U+2D09 U+2D0A U+2D0B U+2D0C U+2D0D U+2D0E U+2D0F U+2D10 U+2D11 U+2D12 U+2D13 U+2D14 U+2D15 U+2D16 U+2D17 U+2D18 U+2D19 U+2D1A U+2D1B U+2D1C U+2D1D U+2D1E U+2D1F U+2D20 U+2D21 U+2D22 U+2D23 U+2D24 U+2D25 U+2D27 U+2D2D U+A640 U+A641 U+A642 U+A643 U+A644 U+A645 U+A646 U+A647 U+A648 U+A649 U+A64A U+A64B U+A64C U+A64D U+A64E U+A64F U+A650 U+A651 U+A652 U+A653 U+A654 U+A655 U+A656 U+A657 U+A658 U+A659 U+A65A U+A65B U+A65C U+A65D U+A65E U+A65F U+A660 U+A661 U+A662 U+A663 U+A664 U+A665 U+A666 U+A667 U+A668 U+A669 U+A66A U+A66B U+A66C U+A66D U+A680 U+A681 U+A682 U+A683 U+A684 U+A685 U+A686 U+A687 U+A688 U+A689 U+A68A U+A68B U+A68C U+A68D U+A68E U+A68F U+A690 U+A691 U+A692 U+A693 U+A694 U+A695 U+A696 U+A697 U+A698 U+A699 U+A69A U+A69B U+A69C U+A69D U+A722 U+A723 U+A724 U+A725 U+A726 U+A727 U+A728 U+A729 U+A72A U+A72B U+A72C U+A72D U+A72E U+A72F U+A730 U+A731 U+A732 U+A733 U+A734 U+A735 U+A736 U+A737 U+A738 U+A739 U+A73A U+A73B U+A73C U+A73D U+A73E U+A73F U+A740 U+A741 U+A742 U+A743 U+A744 U+A745 U+A746 U+A747 U+A748 U+A749 U+A74A U+A74B U+A74C U+A74D U+A74E U+A74F U+A750 U+A751 U+A752 U+A753 U+A754 U+A755 U+A756 U+A757 U+A758 U+A759 U+A75A U+A75B U+A75C U+A75D U+A75E U+A75F U+A760 U+A761 U+A762 U+A763 U+A764 U+A765 U+A766 U+A767 U+A768 U+A769 U+A76A U+A76B U+A76C U+A76D U+A76E U+A76F U+A770 U+A771 U+A772 U+A773 U+A774 U+A775 U+A776 U+A777 U+A778 U+A779 U+A77A U+A77B U+A77C U+A77D U+A77E U+A77F U+A780 U+A781 U+A782 U+A783 U+A784 U+A785 U+A786 U+A787 U+A78B U+A78C U+A78D U+A78E U+A790 U+A791 U+A792 U+A793 U+A794 U+A795 U+A796 U+A797 U+A798 U+A799 U+A79A U+A79B U+A79C U+A79D U+A79E U+A79F U+A7A0 U+A7A1 U+A7A2 U+A7A3 U+A7A4 U+A7A5 U+A7A6 U+A7A7 U+A7A8 U+A7A9 U+A7AA U+A7AB U+A7AC U+A7AD U+A7AE U+A7AF U+A7B0 U+A7B1 U+A7B2 U+A7B3 U+A7B4 U+A7B5 U+A7B6 U+A7B7 U+A7B8 U+A7B9 U+A7BA U+A7BB U+A7BC U+A7BD U+A7BE U+A7BF U+A7C0 U+A7C1 U+A7C2 U+A7C3 U+A7C4 U+A7C5 U+A7C6 U+A7C7 U+A7C8 U+A7C9 U+A7CA U+A7D0 U+A7D1 U+A7D3 U+A7D5 U+A7D6 U+A7D7 U+A7D8 U+A7D9 U+A7F5 U+A7F6 U+A7F8 U+A7F9 U+A7FA U+AB30 U+AB31 U+AB32 U+AB33 U+AB34 U+AB35 U+AB36 U+AB37 U+AB38 U+AB39 U+AB3A U+AB3B U+AB3C U+AB3D U+AB3E U+AB3F U+AB40 U+AB41 U+AB42 U+AB43 U+AB44 U+AB45 U+AB46 U+AB47 U+AB48 U+AB49 U+AB4A U+AB4B U+AB4C U+AB4D U+AB4E U+AB4F U+AB50 U+AB51 U+AB52 U+AB53 U+AB54 U+AB55 U+AB56 U+AB57 U+AB58 U+AB59 U+AB5A U+AB5C U+AB5D U+AB5E U+AB5F U+AB60 U+AB61 U+AB62 U+AB63 U+AB64 U+AB65 U+AB66 U+AB67 U+AB68 U+AB70 U+AB71 U+AB72 U+AB73 U+AB74 U+AB75 U+AB76 U+AB77 U+AB78 U+AB79 U+AB7A U+AB7B U+AB7C U+AB7D U+AB7E U+AB7F U+AB80 U+AB81 U+AB82 U+AB83 U+AB84 U+AB85 U+AB86 U+AB87 U+AB88 U+AB89 U+AB8A U+AB8B U+AB8C U+AB8D U+AB8E U+AB8F U+AB90 U+AB91 U+AB92 U+AB93 U+AB94 U+AB95 U+AB96 U+AB97 U+AB98 U+AB99 U+AB9A U+AB9B U+AB9C U+AB9D U+AB9E U+AB9F U+ABA0 U+ABA1 U+ABA2 U+ABA3 U+ABA4 U+ABA5 U+ABA6 U+ABA7 U+ABA8 U+ABA9 U+ABAA U+ABAB U+ABAC U+ABAD U+ABAE U+ABAF U+ABB0 U+ABB1 U+ABB2 U+ABB3 U+ABB4 U+ABB5 U+ABB6 U+ABB7 U+ABB8 U+ABB9 U+ABBA U+ABBB U+ABBC U+ABBD U+ABBE U+ABBF U+FB00 U+FB01 U+FB02 U+FB03 U+FB04 U+FB05 U+FB06 U+FB13 U+FB14 U+FB15 U+FB16 U+FB17 U+FF21 U+FF22 U+FF23 U+FF24 U+FF25 U+FF26 U+FF27 U+FF28 U+FF29 U+FF2A U+FF2B U+FF2C U+FF2D U+FF2E U+FF2F U+FF30 U+FF31 U+FF32 U+FF33 U+FF34 U+FF35 U+FF36 U+FF37 U+FF38 U+FF39 U+FF3A U+FF41 U+FF42 U+FF43 U+FF44 U+FF45 U+FF46 U+FF47 U+FF48 U+FF49 U+FF4A U+FF4B U+FF4C U+FF4D U+FF4E U+FF4F U+FF50 U+FF51 U+FF52 U+FF53 U+FF54 U+FF55 U+FF56 U+FF57 U+FF58 U+FF59 U+FF5A U+10400U+10401U+10402U+10403U+10404U+10405U+10406U+10407U+10408U+10409U+1040AU+1040BU+1040CU+1040DU+1040EU+1040FU+10410U+10411U+10412U+10413U+10414"
    \o "U+10415U+10416U+10417U+10418U+10419U+1041AU+1041BU+1041CU+1041DU+1041EU+1041FU+10420U+10421U+10422U+10423U+10424U+10425U+10426U+10427U+10428U+10429U+1042AU+1042BU+1042CU+1042DU+1042EU+1042FU+10430U+10431U+10432U+10433U+10434U+10435U+10436U+10437U+10438U+10439U+1043AU+1043BU+1043CU+1043DU+1043EU+1043FU+10440U+10441U+10442U+10443U+10444U+10445U+10446U+10447U+10448U+10449U+1044AU+1044BU+1044CU+1044DU+1044EU+1044FU+104B0U+104B1U+104B2U+104B3U+104B4U+104B5U+104B6U+104B7U+104B8U+104B9U+104BAU+104BBU+104BCU+104BDU+104BEU+104BFU+104C0U+104C1U+104C2U+104C3U+104C4U+104C5U+104C6U+104C7U+104C8U+104C9U+104CAU+104CBU+104CCU+104CDU+104CEU+104CFU+104D0U+104D1U+104D2U+104D3U+104D8U+104D9U+104DAU+104DBU+104DCU+104DDU+104DEU+104DFU+104E0U+104E1U+104E2U+104E3U+104E4U+104E5U+104E6U+104E7U+104E8U+104E9U+104EAU+104EBU+104ECU+104EDU+104EEU+104EFU+104F0U+104F1U+104F2U+104F3U+104F4U+104F5U+104F6U+104F7U+104F8U+104F9U+104FAU+104FBU+10570U+10571U+10572U+10573U+10574U+10575U+10576U+10577U+10578U+10579U+1057AU+1057CU+1057DU+1057EU+1057FU+10580U+10581U+10582U+10583U+10584U+10585U+10586U+10587U+10588U+10589U+1058AU+1058CU+1058DU+1058EU+1058FU+10590U+10591U+10592U+10594U+10595U+10597U+10598U+10599U+1059AU+1059BU+1059CU+1059DU+1059EU+1059FU+105A0U+105A1U+105A3U+105A4U+105A5U+105A6U+105A7U+105A8U+105A9U+105AAU+105ABU+105ACU+105ADU+105AEU+105AFU+105B0U+105B1U+105B3U+105B4U+105B5U+105B6U+105B7U+105B8U+105B9U+105BBU+105BCU+10780U+10783U+10784U+10785U+10787U+10788U+10789U+1078AU+1078BU+1078CU+1078DU+1078EU+1078FU+10790U+10791U+10792U+10793U+10794U+10795U+10796U+10797U+10798U+10799U+1079AU+1079BU+1079CU+1079DU+1079EU+1079FU+107A0U+107A1U+107A2U+107A3U+107A4U+107A5U+107A6U+107A7U+107A8U+107A9U+107AAU+107ABU+107ACU+107ADU+107AEU+107AFU+107B0U+107B2U+107B3U+107B4U+107B5U+107B6U+107B7U+107B8U+107B9U+107BAU+10C80U+10C81U+10C82U+10C83U+10C84U+10C85U+10C86U+10C87U+10C88U+10C89U+10C8AU+10C8BU+10C8CU+10C8DU+10C8EU+10C8FU+10C90U+10C91U+10C92U+10C93U+10C94U+10C95U+10C96U+10C97U+10C98U+10C99U+10C9AU+10C9BU+10C9CU+10C9DU+10C9EU+10C9FU+10CA0U+10CA1U+10CA2U+10CA3U+10CA4U+10CA5U+10CA6U+10CA7U+10CA8U+10CA9U+10CAAU+10CABU+10CACU+10CADU+10CAEU+10CAFU+10CB0U+10CB1U+10CB2U+10CC0U+10CC1U+10CC2U+10CC3U+10CC4U+10CC5U+10CC6U+10CC7U+10CC8U+10CC9U+10CCAU+10CCBU+10CCCU+10CCDU+10CCEU+10CCFU+10CD0U+10CD1U+10CD2U+10CD3U+10CD4U+10CD5U+10CD6U+10CD7U+10CD8U+10CD9U+10CDAU+10CDBU+10CDCU+10CDDU+10CDEU+10CDFU+10CE0U+10CE1U+10CE2U+10CE3U+10CE4U+10CE5U+10CE6U+10CE7U+10CE8U+10CE9U+10CEAU+10CEBU+10CECU+10CEDU+10CEEU+10CEFU+10CF0U+10CF1U+10CF2U+118A0U+118A1U+118A2U+118A3U+118A4U+118A5U+118A6U+118A7U+118A8U+118A9U+118AAU+118ABU+118ACU+118ADU+118AEU+118AFU+118B0U+118B1U+118B2U+118B3U+118B4U+118B5U+118B6U+118B7U+118B8U+118B9U+118BAU+118BBU+118BCU+118BDU+118BEU+118BFU+118C0U+118C1U+118C2U+118C3U+118C4U+118C5U+118C6U+118C7U+118C8U+118C9U+118CAU+118CBU+118CCU+118CDU+118CEU+118CFU+118D0U+118D1U+118D2U+118D3U+118D4U+118D5U+118D6U+118D7U+118D8U+118D9U+118DAU+118DBU+118DCU+118DDU+118DEU+118DFU+16E40U+16E41U+16E42U+16E43U+16E44U+16E45U+16E46U+16E47U+16E48U+16E49U+16E4AU+16E4BU+16E4CU+16E4DU+16E4EU+16E4FU+16E50U+16E51U+16E52U+16E53U+16E54U+16E55U+16E56U+16E57U+16E58U+16E59U+16E5AU+16E5BU+16E5CU+16E5DU+16E5EU+16E5FU+16E60U+16E61U+16E62U+16E63U+16E64U+16E65U+16E66U+16E67U+16E68U+16E69U+16E6AU+16E6BU+16E6CU+16E6DU+16E6EU+16E6FU+16E70U+16E71U+16E72U+16E73U+16E74U+16E75U+16E76U+16E77U+16E78U+16E79U+16E7AU+16E7BU+16E7CU+16E7DU+16E7EU+16E7FU+1D400U+1D401U+1D402U+1D403U+1D404U+1D405U+1D406U+1D407U+1D408U+1D409U+1D40AU+1D40BU+1D40CU+1D40DU+1D40EU+1D40FU+1D410U+1D411U+1D412U+1D413U+1D414U+1D415U+1D416U+1D417U+1D418U+1D419U+1D41AU+1D41BU+1D41CU+1D41DU+1D41EU+1D41FU+1D420U+1D421U+1D422U+1D423U+1D424U+1D425U+1D426U+1D427U+1D428U+1D429U+1D42AU+1D42BU+1D42CU+1D42DU+1D42EU+1D42FU+1D430U+1D431U+1D432U+1D433U+1D434U+1D435U+1D436U+1D437U+1D438U+1D439U+1D43AU+1D43BU+1D43CU+1D43DU+1D43EU+1D43FU+1D440U+1D441U+1D442U+1D443U+1D444U+1D445U+1D446U+1D447U+1D448U+1D449U+1D44AU+1D44BU+1D44CU+1D44DU+1D44EU+1D44FU+1D450U+1D451U+1D452U+1D453U+1D454"
    \o "U+1D456U+1D457U+1D458U+1D459U+1D45AU+1D45BU+1D45CU+1D45DU+1D45EU+1D45FU+1D460U+1D461U+1D462U+1D463U+1D464U+1D465U+1D466U+1D467U+1D468U+1D469U+1D46AU+1D46BU+1D46CU+1D46DU+1D46EU+1D46FU+1D470U+1D471U+1D472U+1D473U+1D474U+1D475U+1D476U+1D477U+1D478U+1D479U+1D47AU+1D47BU+1D47CU+1D47DU+1D47EU+1D47FU+1D480U+1D481U+1D482U+1D483U+1D484U+1D485U+1D486U+1D487U+1D488U+1D489U+1D48AU+1D48BU+1D48CU+1D48DU+1D48EU+1D48FU+1D490U+1D491U+1D492U+1D493U+1D494U+1D495U+1D496U+1D497U+1D498U+1D499U+1D49AU+1D49BU+1D49CU+1D49EU+1D49FU+1D4A2U+1D4A5U+1D4A6U+1D4A9U+1D4AAU+1D4ABU+1D4ACU+1D4AEU+1D4AFU+1D4B0U+1D4B1U+1D4B2U+1D4B3U+1D4B4U+1D4B5U+1D4B6U+1D4B7U+1D4B8U+1D4B9U+1D4BBU+1D4BDU+1D4BEU+1D4BFU+1D4C0U+1D4C1U+1D4C2U+1D4C3U+1D4C5U+1D4C6U+1D4C7U+1D4C8U+1D4C9U+1D4CAU+1D4CBU+1D4CCU+1D4CDU+1D4CEU+1D4CFU+1D4D0U+1D4D1U+1D4D2U+1D4D3U+1D4D4U+1D4D5U+1D4D6U+1D4D7U+1D4D8U+1D4D9U+1D4DAU+1D4DBU+1D4DCU+1D4DDU+1D4DEU+1D4DFU+1D4E0U+1D4E1U+1D4E2U+1D4E3U+1D4E4U+1D4E5U+1D4E6U+1D4E7U+1D4E8U+1D4E9U+1D4EAU+1D4EBU+1D4ECU+1D4EDU+1D4EEU+1D4EFU+1D4F0U+1D4F1U+1D4F2U+1D4F3U+1D4F4U+1D4F5U+1D4F6U+1D4F7U+1D4F8U+1D4F9U+1D4FAU+1D4FBU+1D4FCU+1D4FDU+1D4FEU+1D4FFU+1D500U+1D501U+1D502U+1D503U+1D504U+1D505U+1D507U+1D508U+1D509U+1D50AU+1D50DU+1D50EU+1D50FU+1D510U+1D511U+1D512U+1D513U+1D514U+1D516U+1D517U+1D518U+1D519U+1D51AU+1D51BU+1D51CU+1D51EU+1D51FU+1D520U+1D521U+1D522U+1D523U+1D524U+1D525U+1D526U+1D527U+1D528U+1D529U+1D52AU+1D52BU+1D52CU+1D52DU+1D52EU+1D52FU+1D530U+1D531U+1D532U+1D533U+1D534U+1D535U+1D536U+1D537U+1D538U+1D539U+1D53BU+1D53CU+1D53DU+1D53EU+1D540U+1D541U+1D542U+1D543U+1D544U+1D546U+1D54AU+1D54BU+1D54CU+1D54DU+1D54EU+1D54FU+1D550U+1D552U+1D553U+1D554U+1D555U+1D556U+1D557U+1D558U+1D559U+1D55AU+1D55BU+1D55CU+1D55DU+1D55EU+1D55FU+1D560U+1D561U+1D562U+1D563U+1D564U+1D565U+1D566U+1D567U+1D568U+1D569U+1D56AU+1D56BU+1D56CU+1D56DU+1D56EU+1D56FU+1D570U+1D571U+1D572U+1D573U+1D574U+1D575U+1D576U+1D577U+1D578U+1D579U+1D57AU+1D57BU+1D57CU+1D57DU+1D57EU+1D57FU+1D580U+1D581U+1D582U+1D583U+1D584U+1D585U+1D586U+1D587U+1D588U+1D589U+1D58AU+1D58BU+1D58CU+1D58DU+1D58EU+1D58FU+1D590U+1D591U+1D592U+1D593U+1D594U+1D595U+1D596U+1D597U+1D598U+1D599U+1D59AU+1D59BU+1D59CU+1D59DU+1D59EU+1D59FU+1D5A0U+1D5A1U+1D5A2U+1D5A3U+1D5A4U+1D5A5U+1D5A6U+1D5A7U+1D5A8U+1D5A9U+1D5AAU+1D5ABU+1D5ACU+1D5ADU+1D5AEU+1D5AFU+1D5B0U+1D5B1U+1D5B2U+1D5B3U+1D5B4U+1D5B5U+1D5B6U+1D5B7U+1D5B8U+1D5B9U+1D5BAU+1D5BBU+1D5BCU+1D5BDU+1D5BEU+1D5BFU+1D5C0U+1D5C1U+1D5C2U+1D5C3U+1D5C4U+1D5C5U+1D5C6U+1D5C7U+1D5C8U+1D5C9U+1D5CAU+1D5CBU+1D5CCU+1D5CDU+1D5CEU+1D5CFU+1D5D0U+1D5D1U+1D5D2U+1D5D3U+1D5D4U+1D5D5U+1D5D6U+1D5D7U+1D5D8U+1D5D9U+1D5DAU+1D5DBU+1D5DCU+1D5DDU+1D5DEU+1D5DFU+1D5E0U+1D5E1U+1D5E2U+1D5E3U+1D5E4U+1D5E5U+1D5E6U+1D5E7U+1D5E8U+1D5E9U+1D5EAU+1D5EBU+1D5ECU+1D5EDU+1D5EEU+1D5EFU+1D5F0U+1D5F1U+1D5F2U+1D5F3U+1D5F4U+1D5F5U+1D5F6U+1D5F7U+1D5F8U+1D5F9U+1D5FAU+1D5FBU+1D5FCU+1D5FDU+1D5FEU+1D5FFU+1D600U+1D601U+1D602U+1D603U+1D604U+1D605U+1D606U+1D607U+1D608U+1D609U+1D60AU+1D60BU+1D60CU+1D60DU+1D60EU+1D60FU+1D610U+1D611U+1D612U+1D613U+1D614U+1D615U+1D616U+1D617U+1D618U+1D619U+1D61AU+1D61BU+1D61CU+1D61DU+1D61EU+1D61FU+1D620U+1D621U+1D622U+1D623U+1D624U+1D625U+1D626U+1D627U+1D628U+1D629U+1D62AU+1D62BU+1D62CU+1D62DU+1D62EU+1D62FU+1D630U+1D631U+1D632U+1D633U+1D634U+1D635U+1D636U+1D637U+1D638U+1D639U+1D63AU+1D63BU+1D63CU+1D63DU+1D63EU+1D63FU+1D640U+1D641U+1D642U+1D643U+1D644U+1D645U+1D646U+1D647U+1D648U+1D649U+1D64AU+1D64BU+1D64CU+1D64DU+1D64EU+1D64FU+1D650U+1D651U+1D652U+1D653U+1D654U+1D655U+1D656U+1D657U+1D658U+1D659U+1D65AU+1D65BU+1D65CU+1D65DU+1D65EU+1D65FU+1D660U+1D661U+1D662U+1D663U+1D664U+1D665U+1D666U+1D667U+1D668U+1D669U+1D66AU+1D66BU+1D66CU+1D66DU+1D66EU+1D66FU+1D670U+1D671U+1D672U+1D673U+1D674U+1D675U+1D676U+1D677U+1D678U+1D679U+1D67AU+1D67BU+1D67CU+1D67DU+1D67EU+1D67FU+1D680U+1D681U+1D682U+1D683U+1D684U+1D685U+1D686U+1D687U+1D688U+1D689U+1D68AU+1D68BU+1D68CU+1D68DU+1D68EU+1D68FU+1D690U+1D691U+1D692U+1D693U+1D694U+1D695U+1D696U+1D697U+1D698U+1D699U+1D69AU+1D69BU+1D69CU+1D69DU+1D69EU+1D69FU+1D6A0U+1D6A1U+1D6A2U+1D6A3U+1D6A4U+1D6A5U+1D6A8U+1D6A9"
    \o "U+1D6AAU+1D6ABU+1D6ACU+1D6ADU+1D6AEU+1D6AFU+1D6B0U+1D6B1U+1D6B2U+1D6B3U+1D6B4U+1D6B5U+1D6B6U+1D6B7U+1D6B8U+1D6B9U+1D6BAU+1D6BBU+1D6BCU+1D6BDU+1D6BEU+1D6BFU+1D6C0U+1D6C2U+1D6C3U+1D6C4U+1D6C5U+1D6C6U+1D6C7U+1D6C8U+1D6C9U+1D6CAU+1D6CBU+1D6CCU+1D6CDU+1D6CEU+1D6CFU+1D6D0U+1D6D1U+1D6D2U+1D6D3U+1D6D4U+1D6D5U+1D6D6U+1D6D7U+1D6D8U+1D6D9U+1D6DAU+1D6DCU+1D6DDU+1D6DEU+1D6DFU+1D6E0U+1D6E1U+1D6E2U+1D6E3U+1D6E4U+1D6E5U+1D6E6U+1D6E7U+1D6E8U+1D6E9U+1D6EAU+1D6EBU+1D6ECU+1D6EDU+1D6EEU+1D6EFU+1D6F0U+1D6F1U+1D6F2U+1D6F3U+1D6F4U+1D6F5U+1D6F6U+1D6F7U+1D6F8U+1D6F9U+1D6FAU+1D6FCU+1D6FDU+1D6FEU+1D6FFU+1D700U+1D701U+1D702U+1D703U+1D704U+1D705U+1D706U+1D707U+1D708U+1D709U+1D70AU+1D70BU+1D70CU+1D70DU+1D70EU+1D70FU+1D710U+1D711U+1D712U+1D713U+1D714U+1D716U+1D717U+1D718U+1D719U+1D71AU+1D71BU+1D71CU+1D71DU+1D71EU+1D71FU+1D720U+1D721U+1D722U+1D723U+1D724U+1D725U+1D726U+1D727U+1D728U+1D729U+1D72AU+1D72BU+1D72CU+1D72DU+1D72EU+1D72FU+1D730U+1D731U+1D732U+1D733U+1D734U+1D736U+1D737U+1D738U+1D739U+1D73AU+1D73BU+1D73CU+1D73DU+1D73EU+1D73FU+1D740U+1D741U+1D742U+1D743U+1D744U+1D745U+1D746U+1D747U+1D748U+1D749U+1D74AU+1D74BU+1D74CU+1D74DU+1D74EU+1D750U+1D751U+1D752U+1D753U+1D754U+1D755U+1D756U+1D757U+1D758U+1D759U+1D75AU+1D75BU+1D75CU+1D75DU+1D75EU+1D75FU+1D760U+1D761U+1D762U+1D763U+1D764U+1D765U+1D766U+1D767U+1D768U+1D769U+1D76AU+1D76BU+1D76CU+1D76DU+1D76EU+1D770U+1D771U+1D772U+1D773U+1D774U+1D775U+1D776U+1D777U+1D778U+1D779U+1D77AU+1D77BU+1D77CU+1D77DU+1D77EU+1D77FU+1D780U+1D781U+1D782U+1D783U+1D784U+1D785U+1D786U+1D787U+1D788U+1D78AU+1D78BU+1D78CU+1D78DU+1D78EU+1D78FU+1D790U+1D791U+1D792U+1D793U+1D794U+1D795U+1D796U+1D797U+1D798U+1D799U+1D79AU+1D79BU+1D79CU+1D79DU+1D79EU+1D79FU+1D7A0U+1D7A1U+1D7A2U+1D7A3U+1D7A4U+1D7A5U+1D7A6U+1D7A7U+1D7A8U+1D7AAU+1D7ABU+1D7ACU+1D7ADU+1D7AEU+1D7AFU+1D7B0U+1D7B1U+1D7B2U+1D7B3U+1D7B4U+1D7B5U+1D7B6U+1D7B7U+1D7B8U+1D7B9U+1D7BAU+1D7BBU+1D7BCU+1D7BDU+1D7BEU+1D7BFU+1D7C0U+1D7C1U+1D7C2U+1D7C4U+1D7C5U+1D7C6U+1D7C7U+1D7C8U+1D7C9U+1D7CAU+1D7CBU+1DF00U+1DF01U+1DF02U+1DF03U+1DF04U+1DF05U+1DF06U+1DF07U+1DF08U+1DF09U+1DF0BU+1DF0CU+1DF0DU+1DF0EU+1DF0FU+1DF10U+1DF11U+1DF12U+1DF13U+1DF14U+1DF15U+1DF16U+1DF17U+1DF18U+1DF19U+1DF1AU+1DF1BU+1DF1CU+1DF1DU+1DF1EU+1E900U+1E901U+1E902U+1E903U+1E904U+1E905U+1E906U+1E907U+1E908U+1E909U+1E90AU+1E90BU+1E90CU+1E90DU+1E90EU+1E90FU+1E910U+1E911U+1E912U+1E913U+1E914U+1E915U+1E916U+1E917U+1E918U+1E919U+1E91AU+1E91BU+1E91CU+1E91DU+1E91EU+1E91FU+1E920U+1E921U+1E922U+1E923U+1E924U+1E925U+1E926U+1E927U+1E928U+1E929U+1E92AU+1E92BU+1E92CU+1E92DU+1E92EU+1E92FU+1E930U+1E931U+1E932U+1E933U+1E934U+1E935U+1E936U+1E937U+1E938U+1E939U+1E93AU+1E93BU+1E93CU+1E93DU+1E93EU+1E93FU+1E940U+1E941U+1E942U+1E943U+1F130U+1F131U+1F132U+1F133U+1F134U+1F135U+1F136U+1F137U+1F138U+1F139U+1F13AU+1F13BU+1F13CU+1F13DU+1F13EU+1F13FU+1F140U+1F141U+1F142U+1F143U+1F144U+1F145U+1F146U+1F147U+1F148U+1F149U+1F150U+1F151U+1F152U+1F153U+1F154U+1F155U+1F156U+1F157U+1F158U+1F159U+1F15AU+1F15BU+1F15CU+1F15DU+1F15EU+1F15FU+1F160U+1F161U+1F162U+1F163U+1F164U+1F165U+1F166U+1F167U+1F168U+1F169U+1F170U+1F171U+1F172U+1F173U+1F174U+1F175U+1F176U+1F177U+1F178U+1F179U+1F17AU+1F17BU+1F17CU+1F17DU+1F17EU+1F17FU+1F180U+1F181U+1F182U+1F183U+1F184U+1F185U+1F186U+1F187U+1F188U+1F189"

\* the case-ignorable characters, which the rule of the final sigma of
\* str.lower() skips (fields of 7 places)
CaseIgnorableData ==
    "'      .      :      ^      U+0060 U+00A8 U+00AD U+00AF U+00B4 U+00B7 U+00B8 U+02B0 U+02B1 U+02B2 U+02B3 U+02B4 U+02B5 U+02B6 U+02B7 U+02B8 U+02B9 U+02BA U+02BB U+02BC U+02BD U+02BE U+02BF U+02C0 U+02C1 U+02C2 U+02C3 U+02C4 U+02C5 U+02C6 U+02C7 U+02C8 U+02C9 U+02CA U+02CB U+02CC U+02CD U+02CE U+02CF U+02D0 U+02D1 U+02D2 U+02D3 U+02D4 U+02D5 U+02D6 U+02D7 U+02D8 U+02D9 U+02DA U+02DB U+02DC U+02DD U+02DE U+02DF U+02E0 U+02E1 U+02E2 U+02E3 U+02E4 U+02E5 U+02E6 U+02E7 U+02E8 U+02E9 U+02EA U+02EB U+02EC U+02ED U+02EE U+02EF U+02F0 U+02F1 U+02F2 U+02F3 U+02F4 U+02F5 U+02F6 U+02F7 U+02F8 U+02F9 U+02FA U+02FB U+02FC U+02FD U+02FE U+02FF U+0300 U+0301 U+0302 U+0303 U+0304 U+0305 U+0306 U+0307 U+0308 U+0309 U+030A U+030B U+030C U+030D U+030E U+030F U+0310 U+0311 U+0312 U+0313 U+0314 U+0315 U+0316 U+0317 U+0318 U+0319 U+031A U+031B U+031C U+031D U+031E U+031F U+0320 U+0321 U+0322 U+0323 U+0324 U+0325 U+0326 U+0327 U+0328 U+0329 U+032A U+032B U+032C U+032D U+032E U+032F U+0330 U+0331 U+0332 U+0333 U+0334 U+0335 U+0336 U+0337 U+0338 U+0339 U+033A U+033B U+033C U+033D U+033E U+033F U+0340 U+0341 U+0342 U+0343 U+0344 U+0345 U+0346 U+0347 U+0348 U+0349 U+034A U+034B U+034C U+034D U+034E U+034F U+0350 U+0351 U+0352 U+0353 U+0354 U+0355 U+0356 U+0357 U+0358 U+0359 U+035A U+035B U+035C U+035D U+035E U+035F U+0360 U+0361 U+0362 U+0363 U+0364 U+0365 U+0366 U+0367 U+0368 U+0369 U+036A U+036B U+036C U+036D U+036E U+036F U+0374 U+0375 U+037A U+0384 U+0385 U+0387 U+0483 U+0484 U+0485 U+0486 U+0487 U+0488 U+0489 U+0559 U+055F U+0591 U+0592 U+0593 U+0594 U+0595 U+0596 U+0597 U+0598 U+0599 U+059A U+059B U+059C U+059D U+059E U+059F U+05A0 U+05A1 U+05A2 U+05A3 U+05A4 U+05A5 U+05A6 U+05A7 U+05A8 U+05A9 U+05AA U+05AB U+05AC U+05AD U+05AE U+05AF U+05B0 U+05B1 U+05B2 U+05B3 U+05B4 U+05B5 U+05B6 U+05B7 U+05B8 U+05B9 U+05BA U+05BB U+05BC U+05BD U+05BF U+05C1 U+05C2 U+05C4 U+05C5 U+05C7 U+05F4 U+0600 U+0601 U+0602 U+0603 U+0604 U+0605 U+0610 U+0611 U+0612 U+0613 U+0614 U+0615 U+0616 U+0617 U+0618 U+0619 U+061A U+061C U+0640 U+064B U+064C U+064D U+064E U+064F U+0650 U+0651 U+0652 U+0653 U+0654 U+0655 U+0656 U+0657 U+0658 U+0659 U+065A U+065B U+065C U+065D U+065E U+065F U+0670 U+06D6 U+06D7 U+06D8 U+06D9 U+06DA U+06DB U+06DC U+06DD U+06DF U+06E0 U+06E1 U+06E2 U+06E3 U+06E4 U+06E5 U+06E6 U+06E7 U+06E8 U+06EA U+06EB U+06EC U+06ED U+070F U+0711 U+0730 U+0731 U+0732 U+0733 U+0734 U+0735 U+0736 U+0737 U+0738 U+0739 U+073A U+073B U+073C U+073D U+073E U+073F U+0740 U+0741 U+0742 U+0743 U+0744 U+0745 U+0746 U+0747 U+0748 U+0749 U+074A U+07A6 U+07A7 U+07A8 U+07A9 U+07AA U+07AB U+07AC U+07AD U+07AE U+07AF U+07B0 U+07EB U+07EC U+07ED U+07EE U+07EF U+07F0 U+07F1 U+07F2 U+07F3 U+07F4 U+07F5 U+07FA U+07FD U+0816 U+0817 U+0818 U+0819 U+081A U+081B U+081C U+081D U+081E U+081F U+0820 U+0821 U+0822 U+0823 U+0824 U+0825 U+0826 U+0827 U+0828 U+0829 U+082A U+082B U+082C U+082D U+0859 U+085A U+085B U+0888 U+0890 U+0891 U+0898 U+0899 U+089A U+089B U+089C U+089D U+089E U+089F U+08C9 U+08CA U+08CB U+08CC U+08CD U+08CE U+08CF U+08D0 U+08D1 U+08D2 U+08D3 U+08D4 U+08D5 U+08D6 U+08D7 U+08D8 U+08D9 U+08DA U+08DB U+08DC U+08DD U+08DE U+08DF U+08E0 U+08E1 U+08E2 U+08E3 U+08E4 U+08E5 U+08E6 U+08E7 U+08E8 U+08E9 U+08EA U+08EB U+08EC U+08ED U+08EE U+08EF U+08F0 U+08F1 U+08F2 U+08F3 U+08F4 U+08F5 U+08F6 U+08F7 U+08F8 U+08F9 U+08FA U+08FB U+08FC U+08FD U+08FE U+08FF U+0900 U+0901 U+0902 U+093A U+093C U+0941 U+0942 U+0943 U+0944 U+0945 U+0946 U+0947 U+0948 U+094D U+0951 U+0952 U+0953 U+0954 U+0955 U+0956 U+0957 U+0962 U+0963 U+0971 U+0981 U+09BC U+09C1 U+09C2 U+09C3 U+09C4 U+09CD U+09E2 U+09E3 U+09FE U+0A01 U+0A02 U+0A3C U+0A41 U+0A42 U+0A47 U+0A48 U+0A4B U+0A4C U+0A4D U+0A51 U+0A70 U+0A71 U+0A75 U+0A81 U+0A82 U+0ABC U+0AC1 U+0AC2 U+0AC3 U+0AC4 U+0AC5 U+0AC7 U+0AC8 U+0ACD U+0AE2 U+0AE3 U+0AFA U+0AFB U+0AFC U+0AFD U+0AFE U+0AFF U+0B01 U+0B3C U+0B3F U+0B41 U+0B42 U+0B43 U+0B44 U+0B4D U+0B55 U+0B56 U+0B62 U+0B63 U+0B82 U+0BC0 U+0BCD U+0C00 U+0C04 U+0C3C U+0C3E U+0C3F U+0C40 U+0C46 U+0C47 U+0C48 U+0C4A "
    \o "U+0C4B U+0C4C U+0C4D U+0C55 U+0C56 U+0C62 U+0C63 U+0C81 U+0CBC U+0CBF U+0CC6 U+0CCC U+0CCD U+0CE2 U+0CE3 U+0D00 U+0D01 U+0D3B U+0D3C U+0D41 U+0D42 U+0D43 U+0D44 U+0D4D U+0D62 U+0D63 U+0D81 U+0DCA U+0DD2 U+0DD3 U+0DD4 U+0DD6 U+0E31 U+0E34 U+0E35 U+0E36 U+0E37 U+0E38 U+0E39 U+0E3A U+0E46 U+0E47 U+0E48 U+0E49 U+0E4A U+0E4B U+0E4C U+0E4D U+0E4E U+0EB1 U+0EB4 U+0EB5 U+0EB6 U+0EB7 U+0EB8 U+0EB9 U+0EBA U+0EBB U+0EBC U+0EC6 U+0EC8 U+0EC9 U+0ECA U+0ECB U+0ECC U+0ECD U+0F18 U+0F19 U+0F35 U+0F37 U+0F39 U+0F71 U+0F72 U+0F73 U+0F74 U+0F75 U+0F76 U+0F77 U+0F78 U+0F79 U+0F7A U+0F7B U+0F7C U+0F7D U+0F7E U+0F80 U+0F81 U+0F82 U+0F83 U+0F84 U+0F86 U+0F87 U+0F8D U+0F8E U+0F8F U+0F90 U+0F91 U+0F92 U+0F93 U+0F94 U+0F95 U+0F96 U+0F97 U+0F99 U+0F9A U+0F9B U+0F9C U+0F9D U+0F9E U+0F9F U+0FA0 U+0FA1 U+0FA2 U+0FA3 U+0FA4 U+0FA5 U+0FA6 U+0FA7 U+0FA8 U+0FA9 U+0FAA U+0FAB U+0FAC U+0FAD U+0FAE U+0FAF U+0FB0 U+0FB1 U+0FB2 U+0FB3 U+0FB4 U+0FB5 U+0FB6 U+0FB7 U+0FB8 U+0FB9 U+0FBA U+0FBB U+0FBC U+0FC6 U+102D U+102E U+102F U+1030 U+1032 U+1033 U+1034 U+1035 U+1036 U+1037 U+1039 U+103A U+103D U+103E U+1058 U+1059 U+105E U+105F U+1060 U+1071 U+1072 U+1073 U+1074 U+1082 U+1085 U+1086 U+108D U+109D U+10FC U+135D U+135E U+135F U+1712 U+1713 U+1714 U+1732 U+1733 U+1752 U+1753 U+1772 U+1773 U+17B4 U+17B5 U+17B7 U+17B8 U+17B9 U+17BA U+17BB U+17BC U+17BD U+17C6 U+17C9 U+17CA U+17CB U+17CC U+17CD U+17CE U+17CF U+17D0 U+17D1 U+17D2 U+17D3 U+17D7 U+17DD U+180B U+180C U+180D U+180E U+180F U+1843 U+1885 U+1886 U+18A9 U+1920 U+1921 U+1922 U+1927 U+1928 U+1932 U+1939 U+193A U+193B U+1A17 U+1A18 U+1A1B U+1A56 U+1A58 U+1A59 U+1A5A U+1A5B U+1A5C U+1A5D U+1A5E U+1A60 U+1A62 U+1A65 U+1A66 U+1A67 U+1A68 U+1A69 U+1A6A U+1A6B U+1A6C U+1A73 U+1A74 U+1A75 U+1A76 U+1A77 U+1A78 U+1A79 U+1A7A U+1A7B U+1A7C U+1A7F U+1AA7 U+1AB0 U+1AB1 U+1AB2 U+1AB3 U+1AB4 U+1AB5 U+1AB6 U+1AB7 U+1AB8 U+1AB9 U+1ABA U+1ABB U+1ABC U+1ABD U+1ABE U+1ABF U+1AC0 U+1AC1 U+1AC2 U+1AC3 U+1AC4 U+1AC5 U+1AC6 U+1AC7 U+1AC8 U+1AC9 U+1ACA U+1ACB U+1ACC U+1ACD U+1ACE U+1B00 U+1B01 U+1B02 U+1B03 U+1B34 U+1B36 U+1B37 U+1B38 U+1B39 U+1B3A U+1B3C U+1B42 U+1B6B U+1B6C U+1B6D U+1B6E U+1B6F U+1B70 U+1B71 U+1B72 U+1B73 U+1B80 U+1B81 U+1BA2 U+1BA3 U+1BA4 U+1BA5 U+1BA8 U+1BA9 U+1BAB U+1BAC U+1BAD U+1BE6 U+1BE8 U+1BE9 U+1BED U+1BEF U+1BF0 U+1BF1 U+1C2C U+1C2D U+1C2E U+1C2F U+1C30 U+1C31 U+1C32 U+1C33 U+1C36 U+1C37 U+1C78 U+1C79 U+1C7A U+1C7B U+1C7C U+1C7D U+1CD0 U+1CD1 U+1CD2 U+1CD4 U+1CD5 U+1CD6 U+1CD7 U+1CD8 U+1CD9 U+1CDA U+1CDB U+1CDC U+1CDD U+1CDE U+1CDF U+1CE0 U+1CE2 U+1CE3 U+1CE4 U+1CE5 U+1CE6 U+1CE7 U+1CE8 U+1CED U+1CF4 U+1CF8 U+1CF9 U+1D2C U+1D2D U+1D2E U+1D2F U+1D30 U+1D31 U+1D32 U+1D33 U+1D34 U+1D35 U+1D36 U+1D37 U+1D38 U+1D39 U+1D3A U+1D3B U+1D3C U+1D3D U+1D3E U+1D3F U+1D40 U+1D41 U+1D42 U+1D43 U+1D44 U+1D45 U+1D46 U+1D47 U+1D48 U+1D49 U+1D4A U+1D4B U+1D4C U+1D4D U+1D4E U+1D4F U+1D50 U+1D51 U+1D52 U+1D53 U+1D54 U+1D55 U+1D56 U+1D57 U+1D58 U+1D59 U+1D5A U+1D5B U+1D5C U+1D5D U+1D5E U+1D5F U+1D60 U+1D61 U+1D62 U+1D63 U+1D64 U+1D65 U+1D66 U+1D67 U+1D68 U+1D69 U+1D6A U+1D78 U+1D9B U+1D9C U+1D9D U+1D9E U+1D9F U+1DA0 U+1DA1 U+1DA2 U+1DA3 U+1DA4 U+1DA5 U+1DA6 U+1DA7 U+1DA8 U+1DA9 U+1DAA U+1DAB U+1DAC U+1DAD U+1DAE U+1DAF U+1DB0 U+1DB1 U+1DB2 U+1DB3 U+1DB4 U+1DB5 U+1DB6 U+1DB7 U+1DB8 U+1DB9 U+1DBA U+1DBB U+1DBC U+1DBD U+1DBE U+1DBF U+1DC0 U+1DC1 U+1DC2 U+1DC3 U+1DC4 U+1DC5 U+1DC6 U+1DC7 U+1DC8 U+1DC9 U+1DCA U+1DCB U+1DCC U+1DCD U+1DCE U+1DCF U+1DD0 U+1DD1 U+1DD2 U+1DD3 U+1DD4 U+1DD5 U+1DD6 U+1DD7 U+1DD8 U+1DD9 U+1DDA U+1DDB U+1DDC U+1DDD U+1DDE U+1DDF U+1DE0 U+1DE1 U+1DE2 U+1DE3 U+1DE4 U+1DE5 U+1DE6 U+1DE7 U+1DE8 U+1DE9 U+1DEA U+1DEB U+1DEC U+1DED U+1DEE U+1DEF U+1DF0 U+1DF1 U+1DF2 U+1DF3 U+1DF4 U+1DF5 U+1DF6 U+1DF7 U+1DF8 U+1DF9 U+1DFA U+1DFB U+1DFC U+1DFD U+1DFE U+1DFF U+1FBD U+1FBF U+1FC0 U+1FC1 U+1FCD U+1FCE U+1FCF U+1FDD U+1FDE U+1FDF U+1FED U+1FEE U+1FEF U+1FFD U+1FFE U+200B U+200C U+200D U+200E U+200F U+2018 U+2019 U+2024 U+2027 U+202A U+202B U+202C U+202D U+202E U+2060 U+2061 U+2062 U+2063 U+2064 U+2066 U+2067 U+2068 U+2069 "
    \o "U+206A U+206B U+206C U+206D U+206E U+206F U+2071 U+207F U+2090 U+2091 U+2092 U+2093 U+2094 U+2095 U+2096 U+2097 U+2098 U+2099 U+209A U+209B U+209C U+20D0 U+20D1 U+20D2 U+20D3 U+20D4 U+20D5 U+20D6 U+20D7 U+20D8 U+20D9 U+20DA U+20DB U+20DC U+20DD U+20DE U+20DF U+20E0 U+20E1 U+20E2 U+20E3 U+20E4 U+20E5 U+20E6 U+20E7 U+20E8 U+20E9 U+20EA U+20EB U+20EC U+20ED U+20EE U+20EF U+20F0 U+2C7C U+2C7D U+2CEF U+2CF0 U+2CF1 U+2D6F U+2D7F U+2DE0 U+2DE1 U+2DE2 U+2DE3 U+2DE4 U+2DE5 U+2DE6 U+2DE7 U+2DE8 U+2DE9 U+2DEA U+2DEB U+2DEC U+2DED U+2DEE U+2DEF U+2DF0 U+2DF1 U+2DF2 U+2DF3 U+2DF4 U+2DF5 U+2DF6 U+2DF7 U+2DF8 U+2DF9 U+2DFA U+2DFB U+2DFC U+2DFD U+2DFE U+2DFF U+2E2F U+3005 U+302A U+302B U+302C U+302D U+3031 U+3032 U+3033 U+3034 U+3035 U+303B U+3099 U+309A U+309B U+309C U+309D U+309E U+30FC U+30FD U+30FE U+A015 U+A4F8 U+A4F9 U+A4FA U+A4FB U+A4FC U+A4FD U+A60C U+A66F U+A670 U+A671 U+A672 U+A674 U+A675 U+A676 U+A677 U+A678 U+A679 U+A67A U+A67B U+A67C U+A67D U+A67F U+A69C U+A69D U+A69E U+A69F U+A6F0 U+A6F1 U+A700 U+A701 U+A702 U+A703 U+A704 U+A705 U+A706 U+A707 U+A708 U+A709 U+A70A U+A70B U+A70C U+A70D U+A70E U+A70F U+A710 U+A711 U+A712 U+A713 U+A714 U+A715 U+A716 U+A717 U+A718 U+A719 U+A71A U+A71B U+A71C U+A71D U+A71E U+A71F U+A720 U+A721 U+A770 U+A788 U+A789 U+A78A U+A7F2 U+A7F3 U+A7F4 U+A7F8 U+A7F9 U+A802 U+A806 U+A80B U+A825 U+A826 U+A82C U+A8C4 U+A8C5 U+A8E0 U+A8E1 U+A8E2 U+A8E3 U+A8E4 U+A8E5 U+A8E6 U+A8E7 U+A8E8 U+A8E9 U+A8EA U+A8EB U+A8EC U+A8ED U+A8EE U+A8EF U+A8F0 U+A8F1 U+A8FF U+A926 U+A927 U+A928 U+A929 U+A92A U+A92B U+A92C U+A92D U+A947 U+A948 U+A949 U+A94A U+A94B U+A94C U+A94D U+A94E U+A94F U+A950 U+A951 U+A980 U+A981 U+A982 U+A9B3 U+A9B6 U+A9B7 U+A9B8 U+A9B9 U+A9BC U+A9BD U+A9CF U+A9E5 U+A9E6 U+AA29 U+AA2A U+AA2B U+AA2C U+AA2D U+AA2E U+AA31 U+AA32 U+AA35 U+AA36 U+AA43 U+AA4C U+AA70 U+AA7C U+AAB0 U+AAB2 U+AAB3 U+AAB4 U+AAB7 U+AAB8 U+AABE U+AABF U+AAC1 U+AADD U+AAEC U+AAED U+AAF3 U+AAF4 U+AAF6 U+AB5B U+AB5C U+AB5D U+AB5E U+AB5F U+AB69 U+AB6A U+AB6B U+ABE5 U+ABE8 U+ABED U+FB1E U+FBB2 U+FBB3 U+FBB4 U+FBB5 U+FBB6 U+FBB7 U+FBB8 U+FBB9 U+FBBA U+FBBB U+FBBC U+FBBD U+FBBE U+FBBF U+FBC0 U+FBC1 U+FBC2 U+FE00 U+FE01 U+FE02 U+FE03 U+FE04 U+FE05 U+FE06 U+FE07 U+FE08 U+FE09 U+FE0A U+FE0B U+FE0C U+FE0D U+FE0E U+FE0F U+FE13 U+FE20 U+FE21 U+FE22 U+FE23 U+FE24 U+FE25 U+FE26 U+FE27 U+FE28 U+FE29 U+FE2A U+FE2B U+FE2C U+FE2D U+FE2E U+FE2F U+FE52 U+FE55 U+FEFF U+FF07 U+FF0E U+FF1A U+FF3E U+FF40 U+FF70 U+FF9E U+FF9F U+FFE3 U+FFF9 U+FFFA U+FFFB U+101FDU+102E0U+10376U+10377U+10378U+10379U+1037AU+10780U+10781U+10782U+10783U+10784U+10785U+10787U+10788U+10789U+1078AU+1078BU+1078CU+1078DU+1078EU+1078FU+10790U+10791U+10792U+10793U+10794U+10795U+10796U+10797U+10798U+10799U+1079AU+1079BU+1079CU+1079DU+1079EU+1079FU+107A0U+107A1U+107A2U+107A3U+107A4U+107A5U+107A6U+107A7U+107A8U+107A9U+107AAU+107ABU+107ACU+107ADU+107AEU+107AFU+107B0U+107B2U+107B3U+107B4U+107B5U+107B6U+107B7U+107B8U+107B9U+107BAU+10A01U+10A02U+10A03U+10A05U+10A06U+10A0CU+10A0DU+10A0EU+10A0FU+10A38U+10A39U+10A3AU+10A3FU+10AE5U+10AE6U+10D24U+10D25U+10D26U+10D27U+10EABU+10EACU+10F46U+10F47U+10F48U+10F49U+10F4AU+10F4BU+10F4CU+10F4DU+10F4EU+10F4FU+10F50U+10F82U+10F83U+10F84U+10F85U+11001U+11038U+11039U+1103AU+1103BU+1103CU+1103DU+1103EU+1103FU+11040U+11041U+11042U+11043U+11044U+11045U+11046U+11070U+11073U+11074U+1107FU+11080U+11081U+110B3U+110B4U+110B5U+110B6U+110B9U+110BAU+110BDU+110C2U+110CDU+11100U+11101U+11102U+11127U+11128U+11129U+1112AU+1112BU+1112DU+1112EU+1112FU+11130U+11131U+11132U+11133U+11134U+11173U+11180U+11181U+111B6U+111B7U+111B8U+111B9U+111BAU+111BBU+111BCU+111BDU+111BEU+111C9U+111CAU+111CBU+111CCU+111CFU+1122FU+11230U+11231U+11234U+11236U+11237U+1123EU+112DFU+112E3U+112E4U+112E5U+112E6U+112E7U+112E8U+112E9U+112EAU+11300U+11301U+1133BU+1133CU+11340U+11366U+11367U+11368U+11369U+1136AU+1136BU+1136CU+11370U+11371U+11372U+11373U+11374U+11438U+11439U+1143AU+1143BU+1143CU+1143DU+1143EU+1143FU+11442U+11443U+11444U+11446U+1145EU+114B3U+114B4U+114B5U+114B6U+114B7U+114B8U+114BAU+114BFU+114C0U+114C2"
    \o "U+114C3U+115B2U+115B3U+115B4U+115B5U+115BCU+115BDU+115BFU+115C0U+115DCU+115DDU+11633U+11634U+11635U+11636U+11637U+11638U+11639U+1163AU+1163DU+1163FU+11640U+116ABU+116ADU+116B0U+116B1U+116B2U+116B3U+116B4U+116B5U+116B7U+1171DU+1171EU+1171FU+11722U+11723U+11724U+11725U+11727U+11728U+11729U+1172AU+1172BU+1182FU+11830U+11831U+11832U+11833U+11834U+11835U+11836U+11837U+11839U+1183AU+1193BU+1193CU+1193EU+11943U+119D4U+119D5U+119D6U+119D7U+119DAU+119DBU+119E0U+11A01U+11A02U+11A03U+11A04U+11A05U+11A06U+11A07U+11A08U+11A09U+11A0AU+11A33U+11A34U+11A35U+11A36U+11A37U+11A38U+11A3BU+11A3CU+11A3DU+11A3EU+11A47U+11A51U+11A52U+11A53U+11A54U+11A55U+11A56U+11A59U+11A5AU+11A5BU+11A8AU+11A8BU+11A8CU+11A8DU+11A8EU+11A8FU+11A90U+11A91U+11A92U+11A93U+11A94U+11A95U+11A96U+11A98U+11A99U+11C30U+11C31U+11C32U+11C33U+11C34U+11C35U+11C36U+11C38U+11C39U+11C3AU+11C3BU+11C3CU+11C3DU+11C3FU+11C92U+11C93U+11C94U+11C95U+11C96U+11C97U+11C98U+11C99U+11C9AU+11C9BU+11C9CU+11C9DU+11C9EU+11C9FU+11CA0U+11CA1U+11CA2U+11CA3U+11CA4U+11CA5U+11CA6U+11CA7U+11CAAU+11CABU+11CACU+11CADU+11CAEU+11CAFU+11CB0U+11CB2U+11CB3U+11CB5U+11CB6U+11D31U+11D32U+11D33U+11D34U+11D35U+11D36U+11D3AU+11D3CU+11D3DU+11D3FU+11D40U+11D41U+11D42U+11D43U+11D44U+11D45U+11D47U+11D90U+11D91U+11D95U+11D97U+11EF3U+11EF4U+13430U+13431U+13432U+13433U+13434U+13435U+13436U+13437U+13438U+16AF0U+16AF1U+16AF2U+16AF3U+16AF4U+16B30U+16B31U+16B32U+16B33U+16B34U+16B35U+16B36U+16B40U+16B41U+16B42U+16B43U+16F4FU+16F8FU+16F90U+16F91U+16F92U+16F93U+16F94U+16F95U+16F96U+16F97U+16F98U+16F99U+16F9AU+16F9BU+16F9CU+16F9DU+16F9EU+16F9FU+16FE0U+16FE1U+16FE3U+16FE4U+1AFF0U+1AFF1U+1AFF2U+1AFF3U+1AFF5U+1AFF6U+1AFF7U+1AFF8U+1AFF9U+1AFFAU+1AFFBU+1AFFDU+1AFFEU+1BC9DU+1BC9EU+1BCA0U+1BCA1U+1BCA2U+1BCA3U+1CF00U+1CF01U+1CF02U+1CF03U+1CF04U+1CF05U+1CF06U+1CF07U+1CF08U+1CF09U+1CF0AU+1CF0BU+1CF0CU+1CF0DU+1CF0EU+1CF0FU+1CF10U+1CF11U+1CF12U+1CF13U+1CF14U+1CF15U+1CF16U+1CF17U+1CF18U+1CF19U+1CF1AU+1CF1BU+1CF1CU+1CF1DU+1CF1EU+1CF1FU+1CF20U+1CF21U+1CF22U+1CF23U+1CF24U+1CF25U+1CF26U+1CF27U+1CF28U+1CF29U+1CF2AU+1CF2BU+1CF2CU+1CF2DU+1CF30U+1CF31U+1CF32U+1CF33U+1CF34U+1CF35U+1CF36U+1CF37U+1CF38U+1CF39U+1CF3AU+1CF3BU+1CF3CU+1CF3DU+1CF3EU+1CF3FU+1CF40U+1CF41U+1CF42U+1CF43U+1CF44U+1CF45U+1CF46U+1D167U+1D168U+1D169U+1D173U+1D174U+1D175U+1D176U+1D177U+1D178U+1D179U+1D17AU+1D17BU+1D17CU+1D17DU+1D17EU+1D17FU+1D180U+1D181U+1D182U+1D185U+1D186U+1D187U+1D188U+1D189U+1D18AU+1D18BU+1D1AAU+1D1ABU+1D1ACU+1D1ADU+1D242U+1D243U+1D244U+1DA00U+1DA01U+1DA02U+1DA03U+1DA04U+1DA05U+1DA06U+1DA07U+1DA08U+1DA09U+1DA0AU+1DA0BU+1DA0CU+1DA0DU+1DA0EU+1DA0FU+1DA10U+1DA11U+1DA12U+1DA13U+1DA14U+1DA15U+1DA16U+1DA17U+1DA18U+1DA19U+1DA1AU+1DA1BU+1DA1CU+1DA1DU+1DA1EU+1DA1FU+1DA20U+1DA21U+1DA22U+1DA23U+1DA24U+1DA25U+1DA26U+1DA27U+1DA28U+1DA29U+1DA2AU+1DA2BU+1DA2CU+1DA2DU+1DA2EU+1DA2FU+1DA30U+1DA31U+1DA32U+1DA33U+1DA34U+1DA35U+1DA36U+1DA3BU+1DA3CU+1DA3DU+1DA3EU+1DA3FU+1DA40U+1DA41U+1DA42U+1DA43U+1DA44U+1DA45U+1DA46U+1DA47U+1DA48U+1DA49U+1DA4AU+1DA4BU+1DA4CU+1DA4DU+1DA4EU+1DA4FU+1DA50U+1DA51U+1DA52U+1DA53U+1DA54U+1DA55U+1DA56U+1DA57U+1DA58U+1DA59U+1DA5AU+1DA5BU+1DA5CU+1DA5DU+1DA5EU+1DA5FU+1DA60U+1DA61U+1DA62U+1DA63U+1DA64U+1DA65U+1DA66U+1DA67U+1DA68U+1DA69U+1DA6AU+1DA6BU+1DA6CU+1DA75U+1DA84U+1DA9BU+1DA9CU+1DA9DU+1DA9EU+1DA9FU+1DAA1U+1DAA2U+1DAA3U+1DAA4U+1DAA5U+1DAA6U+1DAA7U+1DAA8U+1DAA9U+1DAAAU+1DAABU+1DAACU+1DAADU+1DAAEU+1DAAFU+1E000U+1E001U+1E002U+1E003U+1E004U+1E005U+1E006U+1E008U+1E009U+1E00AU+1E00BU+1E00CU+1E00DU+1E00EU+1E00FU+1E010U+1E011U+1E012U+1E013U+1E014U+1E015U+1E016U+1E017U+1E018U+1E01BU+1E01CU+1E01DU+1E01EU+1E01FU+1E020U+1E021U+1E023U+1E024U+1E026U+1E027U+1E028U+1E029U+1E02AU+1E130U+1E131U+1E132U+1E133U+1E134U+1E135U+1E136U+1E137U+1E138U+1E139U+1E13AU+1E13BU+1E13CU+1E13DU+1E2AEU+1E2ECU+1E2EDU+1E2EEU+1E2EFU+1E8D0U+1E8D1U+1E8D2U+1E8D3U+1E8D4U+1E8D5U+1E8D6U+1E944U+1E945U+1E946U+1E947U+1E948U+1E949U+1E94AU+1E94BU+1F3FBU+1F3FCU+1F3FDU+1F3FEU+1F3FFU+E0001U+E0020U+E0021U+E0022U+E0023U+E0024U+E0025U+E0026U+E0027U+E0028U+E0029U+E002AU+E002BU+E002CU+E002DU+E002EU+E002FU+E0030U+E0031"
    \o "U+E0032U+E0033U+E0034U+E0035U+E0036U+E0037U+E0038U+E0039U+E003AU+E003BU+E003CU+E003DU+E003EU+E003FU+E0040U+E0041U+E0042U+E0043U+E0044U+E0045U+E0046U+E0047U+E0048U+E0049U+E004AU+E004BU+E004CU+E004DU+E004EU+E004FU+E0050U+E0051U+E0052U+E0053U+E0054U+E0055U+E0056U+E0057U+E0058U+E0059U+E005AU+E005BU+E005CU+E005DU+E005EU+E005FU+E0060U+E0061U+E0062U+E0063U+E0064U+E0065U+E0066U+E0067U+E0068U+E0069U+E006AU+E006BU+E006CU+E006DU+E006EU+E006FU+E0070U+E0071U+E0072U+E0073U+E0074U+E0075U+E0076U+E0077U+E0078U+E0079U+E007AU+E007BU+E007CU+E007DU+E007EU+E007FU+E0100U+E0101U+E0102U+E0103U+E0104U+E0105U+E0106U+E0107U+E0108U+E0109U+E010AU+E010BU+E010CU+E010DU+E010EU+E010FU+E0110U+E0111U+E0112U+E0113U+E0114U+E0115U+E0116U+E0117U+E0118U+E0119U+E011AU+E011BU+E011CU+E011DU+E011EU+E011FU+E0120U+E0121U+E0122U+E0123U+E0124U+E0125U+E0126U+E0127U+E0128U+E0129U+E012AU+E012BU+E012CU+E012DU+E012EU+E012FU+E0130U+E0131U+E0132U+E0133U+E0134U+E0135U+E0136U+E0137U+E0138U+E0139U+E013AU+E013BU+E013CU+E013DU+E013EU+E013FU+E0140U+E0141U+E0142U+E0143U+E0144U+E0145U+E0146U+E0147U+E0148U+E0149U+E014AU+E014BU+E014CU+E014DU+E014EU+E014FU+E0150U+E0151U+E0152U+E0153U+E0154U+E0155U+E0156U+E0157U+E0158U+E0159U+E015AU+E015BU+E015CU+E015DU+E015EU+E015FU+E0160U+E0161U+E0162U+E0163U+E0164U+E0165U+E0166U+E0167U+E0168U+E0169U+E016AU+E016BU+E016CU+E016DU+E016EU+E016FU+E0170U+E0171U+E0172U+E0173U+E0174U+E0175U+E0176U+E0177U+E0178U+E0179U+E017AU+E017BU+E017CU+E017DU+E017EU+E017FU+E0180U+E0181U+E0182U+E0183U+E0184U+E0185U+E0186U+E0187U+E0188U+E0189U+E018AU+E018BU+E018CU+E018DU+E018EU+E018FU+E0190U+E0191U+E0192U+E0193U+E0194U+E0195U+E0196U+E0197U+E0198U+E0199U+E019AU+E019BU+E019CU+E019DU+E019EU+E019FU+E01A0U+E01A1U+E01A2U+E01A3U+E01A4U+E01A5U+E01A6U+E01A7U+E01A8U+E01A9U+E01AAU+E01ABU+E01ACU+E01ADU+E01AEU+E01AFU+E01B0U+E01B1U+E01B2U+E01B3U+E01B4U+E01B5U+E01B6U+E01B7U+E01B8U+E01B9U+E01BAU+E01BBU+E01BCU+E01BDU+E01BEU+E01BFU+E01C0U+E01C1U+E01C2U+E01C3U+E01C4U+E01C5U+E01C6U+E01C7U+E01C8U+E01C9U+E01CAU+E01CBU+E01CCU+E01CDU+E01CEU+E01CFU+E01D0U+E01D1U+E01D2U+E01D3U+E01D4U+E01D5U+E01D6U+E01D7U+E01D8U+E01D9U+E01DAU+E01DBU+E01DCU+E01DDU+E01DEU+E01DFU+E01E0U+E01E1U+E01E2U+E01E3U+E01E4U+E01E5U+E01E6U+E01E7U+E01E8U+E01E9U+E01EAU+E01EBU+E01ECU+E01EDU+E01EEU+E01EF"

\* str.upper() of the characters it changes (a key of 7 places and 3 fields
\* of 7 places for the characters of the text)
UpperData ==
    "a      A                    b      B                    c      C                    d      D                    e      E                    f      F                    g      G                    h      H                    i      I                    j      J                    k      K                    l      L                    m      M                    n      N                    o      O                    p      P                    q      Q                    r      R                    s      S                    t      T                    u      U                    v      V                    w      W                    x      X                    y      Y                    z      Z                    U+00B5 U+039C               U+00DF S      S             U+00E0 U+00C0               U+00E1 U+00C1               U+00E2 U+00C2               U+00E3 U+00C3               U+00E4 U+00C4               U+00E5 U+00C5               U+00E6 U+00C6               U+00E7 U+00C7               U+00E8 U+00C8               U+00E9 U+00C9               U+00EA U+00CA               U+00EB U+00CB               U+00EC U+00CC               U+00ED U+00CD               U+00EE U+00CE               U+00EF U+00CF               U+00F0 U+00D0               U+00F1 U+00D1               U+00F2 U+00D2               U+00F3 U+00D3               U+00F4 U+00D4               U+00F5 U+00D5               U+00F6 U+00D6               U+00F8 U+00D8               U+00F9 U+00D9               U+00FA U+00DA               U+00FB U+00DB               U+00FC U+00DC               U+00FD U+00DD               U+00FE U+00DE               U+00FF U+0178               U+0101 U+0100               U+0103 U+0102               U+0105 U+0104               U+0107 U+0106               U+0109 U+0108               U+010B U+010A               U+010D U+010C               U+010F U+010E               U+0111 U+0110               U+0113 U+0112               U+0115 U+0114               U+0117 U+0116               U+0119 U+0118               U+011B U+011A               U+011D U+011C               U+011F U+011E               U+0121 U+0120               U+0123 U+0122               U+0125 U+0124               U+0127 U+0126               U+0129 U+0128               U+012B U+012A               U+012D U+012C               U+012F U+012E               U+0131 I                    U+0133 U+0132               U+0135 U+0134               U+0137 U+0136               U+013A U+0139               U+013C U+013B               U+013E U+013D               U+0140 U+013F               U+0142 U+0141               U+0144 U+0143               U+0146 U+0145               U+0148 U+0147               U+0149 U+02BC N             U+014B U+014A               U+014D U+014C               U+014F U+014E               U+0151 U+0150               U+0153 U+0152               U+0155 U+0154               U+0157 U+0156               U+0159 U+0158               U+015B U+015A               U+015D U+015C               U+015F U+015E               U+0161 U+0160               U+0163 U+0162               U+0165 U+0164               U+0167 U+0166               U+0169 U+0168               U+016B U+016A               U+016D U+016C               U+016F U+016E               U+0171 U+0170               U+0173 U+0172               U+0175 U+0174               U+0177 U+0176               U+017A U+0179               U+017C U+017B               U+017E U+017D               U+017F S                    U+0180 U+0243               U+0183 U+0182               U+0185 U+0184               U+0188 U+0187               U+018C U+018B               U+0192 U+0191               U+0195 U+01F6               U+0199 U+0198               U+019A U+023D               U+019E U+0220               U+01A1 U+01A0               U+01A3 U+01A2               U+01A5 U+01A4               U+01A8 U+01A7               U+01AD U+01AC               U+01B0 U+01AF               U+01B4 U+01B3               U+01B6 U+01B5               U+01B9 U+01B8               "
    \o "U+01BD U+01BC               U+01BF U+01F7               U+01C5 U+01C4               U+01C6 U+01C4               U+01C8 U+01C7               U+01C9 U+01C7               U+01CB U+01CA               U+01CC U+01CA               U+01CE U+01CD               U+01D0 U+01CF               U+01D2 U+01D1               U+01D4 U+01D3               U+01D6 U+01D5               U+01D8 U+01D7               U+01DA U+01D9               U+01DC U+01DB               U+01DD U+018E               U+01DF U+01DE               U+01E1 U+01E0               U+01E3 U+01E2               U+01E5 U+01E4               U+01E7 U+01E6               U+01E9 U+01E8               U+01EB U+01EA               U+01ED U+01EC               U+01EF U+01EE               U+01F0 J      U+030C        U+01F2 U+01F1               U+01F3 U+01F1               U+01F5 U+01F4               U+01F9 U+01F8               U+01FB U+01FA               U+01FD U+01FC               U+01FF U+01FE               U+0201 U+0200               U+0203 U+0202               U+0205 U+0204               U+0207 U+0206               U+0209 U+0208               U+020B U+020A               U+020D U+020C               U+020F U+020E               U+0211 U+0210               U+0213 U+0212               U+0215 U+0214               U+0217 U+0216               U+0219 U+0218               U+021B U+021A               U+021D U+021C               U+021F U+021E               U+0223 U+0222               U+0225 U+0224               U+0227 U+0226               U+0229 U+0228               U+022B U+022A               U+022D U+022C               U+022F U+022E               U+0231 U+0230               U+0233 U+0232               U+023C U+023B               U+023F U+2C7E               U+0240 U+2C7F               U+0242 U+0241               U+0247 U+0246               U+0249 U+0248               U+024B U+024A               U+024D U+024C               U+024F U+024E               U+0250 U+2C6F               U+0251 U+2C6D               U+0252 U+2C70               U+0253 U+0181               U+0254 U+0186               U+0256 U+0189               U+0257 U+018A               U+0259 U+018F               U+025B U+0190               U+025C U+A7AB               U+0260 U+0193               U+0261 U+A7AC               U+0263 U+0194               U+0265 U+A78D               U+0266 U+A7AA               U+0268 U+0197               U+0269 U+0196               U+026A U+A7AE               U+026B U+2C62               U+026C U+A7AD               U+026F U+019C               U+0271 U+2C6E               U+0272 U+019D               U+0275 U+019F               U+027D U+2C64               U+0280 U+01A6               U+0282 U+A7C5               U+0283 U+01A9               U+0287 U+A7B1               U+0288 U+01AE               U+0289 U+0244               U+028A U+01B1               U+028B U+01B2               U+028C U+0245               U+0292 U+01B7               U+029D U+A7B2               U+029E U+A7B0               U+0345 U+0399               U+0371 U+0370               U+0373 U+0372               U+0377 U+0376               U+037B U+03FD               U+037C U+03FE               U+037D U+03FF               U+0390 U+0399 U+0308 U+0301 U+03AC U+0386               U+03AD U+0388               U+03AE U+0389               U+03AF U+038A               U+03B0 U+03A5 U+0308 U+0301 U+03B1 U+0391               U+03B2 U+0392               U+03B3 U+0393               U+03B4 U+0394               U+03B5 U+0395               U+03B6 U+0396               U+03B7 U+0397               U+03B8 U+0398               U+03B9 U+0399               U+03BA U+039A               U+03BB U+039B               U+03BC U+039C               U+03BD U+039D               U+03BE U+039E               U+03BF U+039F               U+03C0 U+03A0               U+03C1 U+03A1               U+03C2 U+03A3               U+03C3 U+03A3               U+03C4 U+03A4               U+03C5 U+03A5               U+03C6 U+03A6               U+03C7 U+03A7               U+03C8 U+03A8               "
    \o "U+03C9 U+03A9               U+03CA U+03AA               U+03CB U+03AB               U+03CC U+038C               U+03CD U+038E               U+03CE U+038F               U+03D0 U+0392               U+03D1 U+0398               U+03D5 U+03A6               U+03D6 U+03A0               U+03D7 U+03CF               U+03D9 U+03D8               U+03DB U+03DA               U+03DD U+03DC               U+03DF U+03DE               U+03E1 U+03E0               U+03E3 U+03E2               U+03E5 U+03E4               U+03E7 U+03E6               U+03E9 U+03E8               U+03EB U+03EA               U+03ED U+03EC               U+03EF U+03EE               U+03F0 U+039A               U+03F1 U+03A1               U+03F2 U+03F9               U+03F3 U+037F               U+03F5 U+0395               U+03F8 U+03F7               U+03FB U+03FA               U+0430 U+0410               U+0431 U+0411               U+0432 U+0412               U+0433 U+0413               U+0434 U+0414               U+0435 U+0415               U+0436 U+0416               U+0437 U+0417               U+0438 U+0418               U+0439 U+0419               U+043A U+041A               U+043B U+041B               U+043C U+041C               U+043D U+041D               U+043E U+041E               U+043F U+041F               U+0440 U+0420               U+0441 U+0421               U+0442 U+0422               U+0443 U+0423               U+0444 U+0424               U+0445 U+0425               U+0446 U+0426               U+0447 U+0427               U+0448 U+0428               U+0449 U+0429               U+044A U+042A               U+044B U+042B               U+044C U+042C               U+044D U+042D               U+044E U+042E               U+044F U+042F               U+0450 U+0400               U+0451 U+0401               U+0452 U+0402               U+0453 U+0403               U+0454 U+0404               U+0455 U+0405               U+0456 U+0406               U+0457 U+0407               U+0458 U+0408               U+0459 U+0409               U+045A U+040A               U+045B U+040B               U+045C U+040C               U+045D U+040D               U+045E U+040E               U+045F U+040F               U+0461 U+0460               U+0463 U+0462               U+0465 U+0464               U+0467 U+0466               U+0469 U+0468               U+046B U+046A               U+046D U+046C               U+046F U+046E               U+0471 U+0470               U+0473 U+0472               U+0475 U+0474               U+0477 U+0476               U+0479 U+0478               U+047B U+047A               U+047D U+047C               U+047F U+047E               U+0481 U+0480               U+048B U+048A               U+048D U+048C               U+048F U+048E               U+0491 U+0490               U+0493 U+0492               U+0495 U+0494               U+0497 U+0496               U+0499 U+0498               U+049B U+049A               U+049D U+049C               U+049F U+049E               U+04A1 U+04A0               U+04A3 U+04A2               U+04A5 U+04A4               U+04A7 U+04A6               U+04A9 U+04A8               U+04AB U+04AA               U+04AD U+04AC               U+04AF U+04AE               U+04B1 U+04B0               U+04B3 U+04B2               U+04B5 U+04B4               U+04B7 U+04B6               U+04B9 U+04B8               U+04BB U+04BA               U+04BD U+04BC               U+04BF U+04BE               U+04C2 U+04C1               U+04C4 U+04C3               U+04C6 U+04C5               U+04C8 U+04C7               U+04CA U+04C9               U+04CC U+04CB               U+04CE U+04CD               U+04CF U+04C0               U+04D1 U+04D0               U+04D3 U+04D2               U+04D5 U+04D4               U+04D7 U+04D6               U+04D9 U+04D8               U+04DB U+04DA               U+04DD U+04DC               U+04DF U+04DE               U+04E1 U+04E0               U+04E3 U+04E2               U+04E5 U+04E4               U+04E7 U+04E6               "
    \o "U+04E9 U+04E8               U+04EB U+04EA               U+04ED U+04EC               U+04EF U+04EE               U+04F1 U+04F0               U+04F3 U+04F2               U+04F5 U+04F4               U+04F7 U+04F6               U+04F9 U+04F8               U+04FB U+04FA               U+04FD U+04FC               U+04FF U+04FE               U+0501 U+0500               U+0503 U+0502               U+0505 U+0504               U+0507 U+0506               U+0509 U+0508               U+050B U+050A               U+050D U+050C               U+050F U+050E               U+0511 U+0510               U+0513 U+0512               U+0515 U+0514               U+0517 U+0516               U+0519 U+0518               U+051B U+051A               U+051D U+051C               U+051F U+051E               U+0521 U+0520               U+0523 U+0522               U+0525 U+0524               U+0527 U+0526               U+0529 U+0528               U+052B U+052A               U+052D U+052C               U+052F U+052E               U+0561 U+0531               U+0562 U+0532               U+0563 U+0533               U+0564 U+0534               U+0565 U+0535               U+0566 U+0536               U+0567 U+0537               U+0568 U+0538               U+0569 U+0539               U+056A U+053A               U+056B U+053B               U+056C U+053C               U+056D U+053D               U+056E U+053E               U+056F U+053F               U+0570 U+0540               U+0571 U+0541               U+0572 U+0542               U+0573 U+0543               U+0574 U+0544               U+0575 U+0545               U+0576 U+0546               U+0577 U+0547               U+0578 U+0548               U+0579 U+0549               U+057A U+054A               U+057B U+054B               U+057C U+054C               U+057D U+054D               U+057E U+054E               U+057F U+054F               U+0580 U+0550               U+0581 U+0551               U+0582 U+0552               U+0583 U+0553               U+0584 U+0554               U+0585 U+0555               U+0586 U+0556               U+0587 U+0535 U+0552        U+10D0 U+1C90               U+10D1 U+1C91               U+10D2 U+1C92               U+10D3 U+1C93               U+10D4 U+1C94               U+10D5 U+1C95               U+10D6 U+1C96               U+10D7 U+1C97               U+10D8 U+1C98               U+10D9 U+1C99               U+10DA U+1C9A               U+10DB U+1C9B               U+10DC U+1C9C               U+10DD U+1C9D               U+10DE U+1C9E               U+10DF U+1C9F               U+10E0 U+1CA0               U+10E1 U+1CA1               U+10E2 U+1CA2               U+10E3 U+1CA3               U+10E4 U+1CA4               U+10E5 U+1CA5               U+10E6 U+1CA6               U+10E7 U+1CA7               U+10E8 U+1CA8               U+10E9 U+1CA9               U+10EA U+1CAA               U+10EB U+1CAB               U+10EC U+1CAC               U+10ED U+1CAD               U+10EE U+1CAE               U+10EF U+1CAF               U+10F0 U+1CB0               U+10F1 U+1CB1               U+10F2 U+1CB2               U+10F3 U+1CB3               U+10F4 U+1CB4               U+10F5 U+1CB5               U+10F6 U+1CB6               U+10F7 U+1CB7               U+10F8 U+1CB8               U+10F9 U+1CB9               U+10FA U+1CBA               U+10FD U+1CBD               U+10FE U+1CBE               U+10FF U+1CBF               U+13F8 U+13F0               U+13F9 U+13F1               U+13FA U+13F2               U+13FB U+13F3               U+13FC U+13F4               U+13FD U+13F5               U+1C80 U+0412               U+1C81 U+0414               U+1C82 U+041E               U+1C83 U+0421               U+1C84 U+0422               U+1C85 U+0422               U+1C86 U+042A               U+1C87 U+0462               U+1C88 U+A64A               U+1D79 U+A77D               U+1D7D U+2C63               U+1D8E U+A7C6               U+1E01 U+1E00               U+1E03 U+1E02               U+1E05 U+1E04               "
    \o "U+1E07 U+1E06               U+1E09 U+1E08               U+1E0B U+1E0A               U+1E0D U+1E0C               U+1E0F U+1E0E               U+1E11 U+1E10               U+1E13 U+1E12               U+1E15 U+1E14               U+1E17 U+1E16               U+1E19 U+1E18               U+1E1B U+1E1A               U+1E1D U+1E1C               U+1E1F U+1E1E               U+1E21 U+1E20               U+1E23 U+1E22               U+1E25 U+1E24               U+1E27 U+1E26               U+1E29 U+1E28               U+1E2B U+1E2A               U+1E2D U+1E2C               U+1E2F U+1E2E               U+1E31 U+1E30               U+1E33 U+1E32               U+1E35 U+1E34               U+1E37 U+1E36               U+1E39 U+1E38               U+1E3B U+1E3A               U+1E3D U+1E3C               U+1E3F U+1E3E               U+1E41 U+1E40               U+1E43 U+1E42               U+1E45 U+1E44               U+1E47 U+1E46               U+1E49 U+1E48               U+1E4B U+1E4A               U+1E4D U+1E4C               U+1E4F U+1E4E               U+1E51 U+1E50               U+1E53 U+1E52               U+1E55 U+1E54               U+1E57 U+1E56               U+1E59 U+1E58               U+1E5B U+1E5A               U+1E5D U+1E5C               U+1E5F U+1E5E               U+1E61 U+1E60               U+1E63 U+1E62               U+1E65 U+1E64               U+1E67 U+1E66               U+1E69 U+1E68               U+1E6B U+1E6A               U+1E6D U+1E6C               U+1E6F U+1E6E               U+1E71 U+1E70               U+1E73 U+1E72               U+1E75 U+1E74               U+1E77 U+1E76               U+1E79 U+1E78               U+1E7B U+1E7A               U+1E7D U+1E7C               U+1E7F U+1E7E               U+1E81 U+1E80               U+1E83 U+1E82               U+1E85 U+1E84               U+1E87 U+1E86               U+1E89 U+1E88               U+1E8B U+1E8A               U+1E8D U+1E8C               U+1E8F U+1E8E               U+1E91 U+1E90               U+1E93 U+1E92               U+1E95 U+1E94               U+1E96 H      U+0331        U+1E97 T      U+0308        U+1E98 W      U+030A        U+1E99 Y      U+030A        U+1E9A A      U+02BE        U+1E9B U+1E60               U+1EA1 U+1EA0               U+1EA3 U+1EA2               U+1EA5 U+1EA4               U+1EA7 U+1EA6               U+1EA9 U+1EA8               U+1EAB U+1EAA               U+1EAD U+1EAC               U+1EAF U+1EAE               U+1EB1 U+1EB0               U+1EB3 U+1EB2               U+1EB5 U+1EB4               U+1EB7 U+1EB6               U+1EB9 U+1EB8               U+1EBB U+1EBA               U+1EBD U+1EBC               U+1EBF U+1EBE               U+1EC1 U+1EC0               U+1EC3 U+1EC2               U+1EC5 U+1EC4               U+1EC7 U+1EC6               U+1EC9 U+1EC8               U+1ECB U+1ECA               U+1ECD U+1ECC               U+1ECF U+1ECE               U+1ED1 U+1ED0               U+1ED3 U+1ED2               U+1ED5 U+1ED4               U+1ED7 U+1ED6               U+1ED9 U+1ED8               U+1EDB U+1EDA               U+1EDD U+1EDC               U+1EDF U+1EDE               U+1EE1 U+1EE0               U+1EE3 U+1EE2               U+1EE5 U+1EE4               U+1EE7 U+1EE6               U+1EE9 U+1EE8               U+1EEB U+1EEA               U+1EED U+1EEC               U+1EEF U+1EEE               U+1EF1 U+1EF0               U+1EF3 U+1EF2               U+1EF5 U+1EF4               U+1EF7 U+1EF6               U+1EF9 U+1EF8               U+1EFB U+1EFA               U+1EFD U+1EFC               U+1EFF U+1EFE               U+1F00 U+1F08               U+1F01 U+1F09               U+1F02 U+1F0A               U+1F03 U+1F0B               U+1F04 U+1F0C               U+1F05 U+1F0D               U+1F06 U+1F0E               U+1F07 U+1F0F               U+1F10 U+1F18               U+1F11 U+1F19               U+1F12 U+1F1A               U+1F13 U+1F1B               U+1F14 U+1F1C               U+1F15 U+1F1D               U+1F20 U+1F28               U+1F21 U+1F29               "
    \o "U+1F22 U+1F2A               U+1F23 U+1F2B               U+1F24 U+1F2C               U+1F25 U+1F2D               U+1F26 U+1F2E               U+1F27 U+1F2F               U+1F30 U+1F38               U+1F31 U+1F39               U+1F32 U+1F3A               U+1F33 U+1F3B               U+1F34 U+1F3C               U+1F35 U+1F3D               U+1F36 U+1F3E               U+1F37 U+1F3F               U+1F40 U+1F48               U+1F41 U+1F49               U+1F42 U+1F4A               U+1F43 U+1F4B               U+1F44 U+1F4C               U+1F45 U+1F4D               U+1F50 U+03A5 U+0313        U+1F51 U+1F59               U+1F52 U+03A5 U+0313 U+0300 U+1F53 U+1F5B               U+1F54 U+03A5 U+0313 U+0301 U+1F55 U+1F5D               U+1F56 U+03A5 U+0313 U+0342 U+1F57 U+1F5F               U+1F60 U+1F68               U+1F61 U+1F69               U+1F62 U+1F6A               U+1F63 U+1F6B               U+1F64 U+1F6C               U+1F65 U+1F6D               U+1F66 U+1F6E               U+1F67 U+1F6F               U+1F70 U+1FBA               U+1F71 U+1FBB               U+1F72 U+1FC8               U+1F73 U+1FC9               U+1F74 U+1FCA               U+1F75 U+1FCB               U+1F76 U+1FDA               U+1F77 U+1FDB               U+1F78 U+1FF8               U+1F79 U+1FF9               U+1F7A U+1FEA               U+1F7B U+1FEB               U+1F7C U+1FFA               U+1F7D U+1FFB               U+1F80 U+1F08 U+0399        U+1F81 U+1F09 U+0399        U+1F82 U+1F0A U+0399        U+1F83 U+1F0B U+0399        U+1F84 U+1F0C U+0399        U+1F85 U+1F0D U+0399        U+1F86 U+1F0E U+0399        U+1F87 U+1F0F U+0399        U+1F88 U+1F08 U+0399        U+1F89 U+1F09 U+0399        U+1F8A U+1F0A U+0399        U+1F8B U+1F0B U+0399        U+1F8C U+1F0C U+0399        U+1F8D U+1F0D U+0399        U+1F8E U+1F0E U+0399        U+1F8F U+1F0F U+0399        U+1F90 U+1F28 U+0399        U+1F91 U+1F29 U+0399        U+1F92 U+1F2A U+0399        U+1F93 U+1F2B U+0399        U+1F94 U+1F2C U+0399        U+1F95 U+1F2D U+0399        U+1F96 U+1F2E U+0399        U+1F97 U+1F2F U+0399        U+1F98 U+1F28 U+0399        U+1F99 U+1F29 U+0399        U+1F9A U+1F2A U+0399        U+1F9B U+1F2B U+0399        U+1F9C U+1F2C U+0399        U+1F9D U+1F2D U+0399        U+1F9E U+1F2E U+0399        U+1F9F U+1F2F U+0399        U+1FA0 U+1F68 U+0399        U+1FA1 U+1F69 U+0399        U+1FA2 U+1F6A U+0399        U+1FA3 U+1F6B U+0399        U+1FA4 U+1F6C U+0399        U+1FA5 U+1F6D U+0399        U+1FA6 U+1F6E U+0399        U+1FA7 U+1F6F U+0399        U+1FA8 U+1F68 U+0399        U+1FA9 U+1F69 U+0399        U+1FAA U+1F6A U+0399        U+1FAB U+1F6B U+0399        U+1FAC U+1F6C U+0399        U+1FAD U+1F6D U+0399        U+1FAE U+1F6E U+0399        U+1FAF U+1F6F U+0399        U+1FB0 U+1FB8               U+1FB1 U+1FB9               U+1FB2 U+1FBA U+0399        U+1FB3 U+0391 U+0399        U+1FB4 U+0386 U+0399        U+1FB6 U+0391 U+0342        U+1FB7 U+0391 U+0342 U+0399 U+1FBC U+0391 U+0399        U+1FBE U+0399               U+1FC2 U+1FCA U+0399        U+1FC3 U+0397 U+0399        U+1FC4 U+0389 U+0399        U+1FC6 U+0397 U+0342        U+1FC7 U+0397 U+0342 U+0399 U+1FCC U+0397 U+0399        U+1FD0 U+1FD8               U+1FD1 U+1FD9               U+1FD2 U+0399 U+0308 U+0300 U+1FD3 U+0399 U+0308 U+0301 U+1FD6 U+0399 U+0342        U+1FD7 U+0399 U+0308 U+0342 U+1FE0 U+1FE8               U+1FE1 U+1FE9               U+1FE2 U+03A5 U+0308 U+0300 U+1FE3 U+03A5 U+0308 U+0301 U+1FE4 U+03A1 U+0313        U+1FE5 U+1FEC               U+1FE6 U+03A5 U+0342        U+1FE7 U+03A5 U+0308 U+0342 U+1FF2 U+1FFA U+0399        U+1FF3 U+03A9 U+0399        U+1FF4 U+038F U+0399        U+1FF6 U+03A9 U+0342        U+1FF7 U+03A9 U+0342 U+0399 U+1FFC U+03A9 U+0399        U+214E U+2132               U+2170 U+2160               U+2171 U+2161               U+2172 U+2162               U+2173 U+2163               U+2174 U+2164               U+2175 U+2165               U+2176 U+2166               U+2177 U+2167               "
    \o "U+2178 U+2168               U+2179 U+2169               U+217A U+216A               U+217B U+216B               U+217C U+216C               U+217D U+216D               U+217E U+216E               U+217F U+216F               U+2184 U+2183               U+24D0 U+24B6               U+24D1 U+24B7               U+24D2 U+24B8               U+24D3 U+24B9               U+24D4 U+24BA               U+24D5 U+24BB               U+24D6 U+24BC               U+24D7 U+24BD               U+24D8 U+24BE               U+24D9 U+24BF               U+24DA U+24C0               U+24DB U+24C1               U+24DC U+24C2               U+24DD U+24C3               U+24DE U+24C4               U+24DF U+24C5               U+24E0 U+24C6               U+24E1 U+24C7               U+24E2 U+24C8               U+24E3 U+24C9               U+24E4 U+24CA               U+24E5 U+24CB               U+24E6 U+24CC               U+24E7 U+24CD               U+24E8 U+24CE               U+24E9 U+24CF               U+2C30 U+2C00               U+2C31 U+2C01               U+2C32 U+2C02               U+2C33 U+2C03               U+2C34 U+2C04               U+2C35 U+2C05               U+2C36 U+2C06               U+2C37 U+2C07               U+2C38 U+2C08               U+2C39 U+2C09               U+2C3A U+2C0A               U+2C3B U+2C0B               U+2C3C U+2C0C               U+2C3D U+2C0D               U+2C3E U+2C0E               U+2C3F U+2C0F               U+2C40 U+2C10               U+2C41 U+2C11               U+2C42 U+2C12               U+2C43 U+2C13               U+2C44 U+2C14               U+2C45 U+2C15               U+2C46 U+2C16               U+2C47 U+2C17               U+2C48 U+2C18               U+2C49 U+2C19               U+2C4A U+2C1A               U+2C4B U+2C1B               U+2C4C U+2C1C               U+2C4D U+2C1D               U+2C4E U+2C1E               U+2C4F U+2C1F               U+2C50 U+2C20               U+2C51 U+2C21               U+2C52 U+2C22               U+2C53 U+2C23               U+2C54 U+2C24               U+2C55 U+2C25               U+2C56 U+2C26               U+2C57 U+2C27               U+2C58 U+2C28               U+2C59 U+2C29               U+2C5A U+2C2A               U+2C5B U+2C2B               U+2C5C U+2C2C               U+2C5D U+2C2D               U+2C5E U+2C2E               U+2C5F U+2C2F               U+2C61 U+2C60               U+2C65 U+023A               U+2C66 U+023E               U+2C68 U+2C67               U+2C6A U+2C69               U+2C6C U+2C6B               U+2C73 U+2C72               U+2C76 U+2C75               U+2C81 U+2C80               U+2C83 U+2C82               U+2C85 U+2C84               U+2C87 U+2C86               U+2C89 U+2C88               U+2C8B U+2C8A               U+2C8D U+2C8C               U+2C8F U+2C8E               U+2C91 U+2C90               U+2C93 U+2C92               U+2C95 U+2C94               U+2C97 U+2C96               U+2C99 U+2C98               U+2C9B U+2C9A               U+2C9D U+2C9C               U+2C9F U+2C9E               U+2CA1 U+2CA0               U+2CA3 U+2CA2               U+2CA5 U+2CA4               U+2CA7 U+2CA6               U+2CA9 U+2CA8               U+2CAB U+2CAA               U+2CAD U+2CAC               U+2CAF U+2CAE               U+2CB1 U+2CB0               U+2CB3 U+2CB2               U+2CB5 U+2CB4               U+2CB7 U+2CB6               U+2CB9 U+2CB8               U+2CBB U+2CBA               U+2CBD U+2CBC               U+2CBF U+2CBE               U+2CC1 U+2CC0               U+2CC3 U+2CC2               U+2CC5 U+2CC4               U+2CC7 U+2CC6               U+2CC9 U+2CC8               U+2CCB U+2CCA               U+2CCD U+2CCC               U+2CCF U+2CCE               U+2CD1 U+2CD0               U+2CD3 U+2CD2               U+2CD5 U+2CD4               U+2CD7 U+2CD6               U+2CD9 U+2CD8               U+2CDB U+2CDA               U+2CDD U+2CDC               U+2CDF U+2CDE               U+2CE1 U+2CE0               U+2CE3 U+2CE2               U+2CEC U+2CEB               "
    \o "U+2CEE U+2CED               U+2CF3 U+2CF2               U+2D00 U+10A0               U+2D01 U+10A1               U+2D02 U+10A2               U+2D03 U+10A3               U+2D04 U+10A4               U+2D05 U+10A5               U+2D06 U+10A6               U+2D07 U+10A7               U+2D08 U+10A8               U+2D09 U+10A9               U+2D0A U+10AA               U+2D0B U+10AB               U+2D0C U+10AC               U+2D0D U+10AD               U+2D0E U+10AE               U+2D0F U+10AF               U+2D10 U+10B0               U+2D11 U+10B1               U+2D12 U+10B2               U+2D13 U+10B3               U+2D14 U+10B4               U+2D15 U+10B5               U+2D16 U+10B6               U+2D17 U+10B7               U+2D18 U+10B8               U+2D19 U+10B9               U+2D1A U+10BA               U+2D1B U+10BB               U+2D1C U+10BC               U+2D1D U+10BD               U+2D1E U+10BE               U+2D1F U+10BF               U+2D20 U+10C0               U+2D21 U+10C1               U+2D22 U+10C2               U+2D23 U+10C3               U+2D24 U+10C4               U+2D25 U+10C5               U+2D27 U+10C7               U+2D2D U+10CD               U+A641 U+A640               U+A643 U+A642               U+A645 U+A644               U+A647 U+A646               U+A649 U+A648               U+A64B U+A64A               U+A64D U+A64C               U+A64F U+A64E               U+A651 U+A650               U+A653 U+A652               U+A655 U+A654               U+A657 U+A656               U+A659 U+A658               U+A65B U+A65A               U+A65D U+A65C               U+A65F U+A65E               U+A661 U+A660               U+A663 U+A662               U+A665 U+A664               U+A667 U+A666               U+A669 U+A668               U+A66B U+A66A               U+A66D U+A66C               U+A681 U+A680               U+A683 U+A682               U+A685 U+A684               U+A687 U+A686               U+A689 U+A688               U+A68B U+A68A               U+A68D U+A68C               U+A68F U+A68E               U+A691 U+A690               U+A693 U+A692               U+A695 U+A694               U+A697 U+A696               U+A699 U+A698               U+A69B U+A69A               U+A723 U+A722               U+A725 U+A724               U+A727 U+A726               U+A729 U+A728               U+A72B U+A72A               U+A72D U+A72C               U+A72F U+A72E               U+A733 U+A732               U+A735 U+A734               U+A737 U+A736               U+A739 U+A738               U+A73B U+A73A               U+A73D U+A73C               U+A73F U+A73E               U+A741 U+A740               U+A743 U+A742               U+A745 U+A744               U+A747 U+A746               U+A749 U+A748               U+A74B U+A74A               U+A74D U+A74C               U+A74F U+A74E               U+A751 U+A750               U+A753 U+A752               U+A755 U+A754               U+A757 U+A756               U+A759 U+A758               U+A75B U+A75A               U+A75D U+A75C               U+A75F U+A75E               U+A761 U+A760               U+A763 U+A762               U+A765 U+A764               U+A767 U+A766               U+A769 U+A768               U+A76B U+A76A               U+A76D U+A76C               U+A76F U+A76E               U+A77A U+A779               U+A77C U+A77B               U+A77F U+A77E               U+A781 U+A780               U+A783 U+A782               U+A785 U+A784               U+A787 U+A786               U+A78C U+A78B               U+A791 U+A790               U+A793 U+A792               U+A794 U+A7C4               U+A797 U+A796               U+A799 U+A798               U+A79B U+A79A               U+A79D U+A79C               U+A79F U+A79E               U+A7A1 U+A7A0               U+A7A3 U+A7A2               U+A7A5 U+A7A4               U+A7A7 U+A7A6               U+A7A9 U+A7A8               U+A7B5 U+A7B4               U+A7B7 U+A7B6               U+A7B9 U+A7B8               U+A7BB U+A7BA               "
    \o "U+A7BD U+A7BC               U+A7BF U+A7BE               U+A7C1 U+A7C0               U+A7C3 U+A7C2               U+A7C8 U+A7C7               U+A7CA U+A7C9               U+A7D1 U+A7D0               U+A7D7 U+A7D6               U+A7D9 U+A7D8               U+A7F6 U+A7F5               U+AB53 U+A7B3               U+AB70 U+13A0               U+AB71 U+13A1               U+AB72 U+13A2               U+AB73 U+13A3               U+AB74 U+13A4               U+AB75 U+13A5               U+AB76 U+13A6               U+AB77 U+13A7               U+AB78 U+13A8               U+AB79 U+13A9               U+AB7A U+13AA               U+AB7B U+13AB               U+AB7C U+13AC               U+AB7D U+13AD               U+AB7E U+13AE               U+AB7F U+13AF               U+AB80 U+13B0               U+AB81 U+13B1               U+AB82 U+13B2               U+AB83 U+13B3               U+AB84 U+13B4               U+AB85 U+13B5               U+AB86 U+13B6               U+AB87 U+13B7               U+AB88 U+13B8               U+AB89 U+13B9               U+AB8A U+13BA               U+AB8B U+13BB               U+AB8C U+13BC               U+AB8D U+13BD               U+AB8E U+13BE               U+AB8F U+13BF               U+AB90 U+13C0               U+AB91 U+13C1               U+AB92 U+13C2               U+AB93 U+13C3               U+AB94 U+13C4               U+AB95 U+13C5               U+AB96 U+13C6               U+AB97 U+13C7               U+AB98 U+13C8               U+AB99 U+13C9               U+AB9A U+13CA               U+AB9B U+13CB               U+AB9C U+13CC               U+AB9D U+13CD               U+AB9E U+13CE               U+AB9F U+13CF               U+ABA0 U+13D0               U+ABA1 U+13D1               U+ABA2 U+13D2               U+ABA3 U+13D3               U+ABA4 U+13D4               U+ABA5 U+13D5               U+ABA6 U+13D6               U+ABA7 U+13D7               U+ABA8 U+13D8               U+ABA9 U+13D9               U+ABAA U+13DA               U+ABAB U+13DB               U+ABAC U+13DC               U+ABAD U+13DD               U+ABAE U+13DE               U+ABAF U+13DF               U+ABB0 U+13E0               U+ABB1 U+13E1               U+ABB2 U+13E2               U+ABB3 U+13E3               U+ABB4 U+13E4               U+ABB5 U+13E5               U+ABB6 U+13E6               U+ABB7 U+13E7               U+ABB8 U+13E8               U+ABB9 U+13E9               U+ABBA U+13EA               U+ABBB U+13EB               U+ABBC U+13EC               U+ABBD U+13ED               U+ABBE U+13EE               U+ABBF U+13EF               U+FB00 F      F             U+FB01 F      I             U+FB02 F      L             U+FB03 F      F      I      U+FB04 F      F      L      U+FB05 S      T             U+FB06 S      T             U+FB13 U+0544 U+0546        U+FB14 U+0544 U+0535        U+FB15 U+0544 U+053B        U+FB16 U+054E U+0546        U+FB17 U+0544 U+053D        U+FF41 U+FF21               U+FF42 U+FF22               U+FF43 U+FF23               U+FF44 U+FF24               U+FF45 U+FF25               U+FF46 U+FF26               U+FF47 U+FF27               U+FF48 U+FF28               U+FF49 U+FF29               U+FF4A U+FF2A               U+FF4B U+FF2B               U+FF4C U+FF2C               U+FF4D U+FF2D               U+FF4E U+FF2E               U+FF4F U+FF2F               U+FF50 U+FF30               U+FF51 U+FF31               U+FF52 U+FF32               U+FF53 U+FF33               U+FF54 U+FF34               U+FF55 U+FF35               U+FF56 U+FF36               U+FF57 U+FF37               U+FF58 U+FF38               U+FF59 U+FF39               U+FF5A U+FF3A               U+10428U+10400              U+10429U+10401              U+1042AU+10402              U+1042BU+10403              U+1042CU+10404              U+1042DU+10405              U+1042EU+10406              U+1042FU+10407              U+10430U+10408              U+10431U+10409              U+10432U+1040A              U+10433U+1040B              U+10434U+1040C              "
    \o "U+10435U+1040D              U+10436U+1040E              U+10437U+1040F              U+10438U+10410              U+10439U+10411              U+1043AU+10412              U+1043BU+10413              U+1043CU+10414              U+1043DU+10415              U+1043EU+10416              U+1043FU+10417              U+10440U+10418              U+10441U+10419              U+10442U+1041A              U+10443U+1041B              U+10444U+1041C              U+10445U+1041D              U+10446U+1041E              U+10447U+1041F              U+10448U+10420              U+10449U+10421              U+1044AU+10422              U+1044BU+10423              U+1044CU+10424              U+1044DU+10425              U+1044EU+10426              U+1044FU+10427              U+104D8U+104B0              U+104D9U+104B1              U+104DAU+104B2              U+104DBU+104B3              U+104DCU+104B4              U+104DDU+104B5              U+104DEU+104B6              U+104DFU+104B7              U+104E0U+104B8              U+104E1U+104B9              U+104E2U+104BA              U+104E3U+104BB              U+104E4U+104BC              U+104E5U+104BD              U+104E6U+104BE              U+104E7U+104BF              U+104E8U+104C0              U+104E9U+104C1              U+104EAU+104C2              U+104EBU+104C3              U+104ECU+104C4              U+104EDU+104C5              U+104EEU+104C6              U+104EFU+104C7              U+104F0U+104C8              U+104F1U+104C9              U+104F2U+104CA              U+104F3U+104CB              U+104F4U+104CC              U+104F5U+104CD              U+104F6U+104CE              U+104F7U+104CF              U+104F8U+104D0              U+104F9U+104D1              U+104FAU+104D2              U+104FBU+104D3              U+10597U+10570              U+10598U+10571              U+10599U+10572              U+1059AU+10573              U+1059BU+10574              U+1059CU+10575              U+1059DU+10576              U+1059EU+10577              U+1059FU+10578              U+105A0U+10579              U+105A1U+1057A              U+105A3U+1057C              U+105A4U+1057D              U+105A5U+1057E              U+105A6U+1057F              U+105A7U+10580              U+105A8U+10581              U+105A9U+10582              U+105AAU+10583              U+105ABU+10584              U+105ACU+10585              U+105ADU+10586              U+105AEU+10587              U+105AFU+10588              U+105B0U+10589              U+105B1U+1058A              U+105B3U+1058C              U+105B4U+1058D              U+105B5U+1058E              U+105B6U+1058F              U+105B7U+10590              U+105B8U+10591              U+105B9U+10592              U+105BBU+10594              U+105BCU+10595              U+10CC0U+10C80              U+10CC1U+10C81              U+10CC2U+10C82              U+10CC3U+10C83              U+10CC4U+10C84              U+10CC5U+10C85              U+10CC6U+10C86              U+10CC7U+10C87              U+10CC8U+10C88              U+10CC9U+10C89              U+10CCAU+10C8A              U+10CCBU+10C8B              U+10CCCU+10C8C              U+10CCDU+10C8D              U+10CCEU+10C8E              U+10CCFU+10C8F              U+10CD0U+10C90              U+10CD1U+10C91              U+10CD2U+10C92              U+10CD3U+10C93              U+10CD4U+10C94              U+10CD5U+10C95              U+10CD6U+10C96              U+10CD7U+10C97              U+10CD8U+10C98              U+10CD9U+10C99              U+10CDAU+10C9A              U+10CDBU+10C9B              U+10CDCU+10C9C              U+10CDDU+10C9D              U+10CDEU+10C9E              U+10CDFU+10C9F              U+10CE0U+10CA0              U+10CE1U+10CA1              U+10CE2U+10CA2              U+10CE3U+10CA3              U+10CE4U+10CA4              U+10CE5U+10CA5              U+10CE6U+10CA6              U+10CE7U+10CA7              U+10CE8U+10CA8              U+10CE9U+10CA9              U+10CEAU+10CAA              U+10CEBU+10CAB              "
    \o "U+10CECU+10CAC              U+10CEDU+10CAD              U+10CEEU+10CAE              U+10CEFU+10CAF              U+10CF0U+10CB0              U+10CF1U+10CB1              U+10CF2U+10CB2              U+118C0U+118A0              U+118C1U+118A1              U+118C2U+118A2              U+118C3U+118A3              U+118C4U+118A4              U+118C5U+118A5              U+118C6U+118A6              U+118C7U+118A7              U+118C8U+118A8              U+118C9U+118A9              U+118CAU+118AA              U+118CBU+118AB              U+118CCU+118AC              U+118CDU+118AD              U+118CEU+118AE              U+118CFU+118AF              U+118D0U+118B0              U+118D1U+118B1              U+118D2U+118B2              U+118D3U+118B3              U+118D4U+118B4              U+118D5U+118B5              U+118D6U+118B6              U+118D7U+118B7              U+118D8U+118B8              U+118D9U+118B9              U+118DAU+118BA              U+118DBU+118BB              U+118DCU+118BC              U+118DDU+118BD              U+118DEU+118BE              U+118DFU+118BF              U+16E60U+16E40              U+16E61U+16E41              U+16E62U+16E42              U+16E63U+16E43              U+16E64U+16E44              U+16E65U+16E45              U+16E66U+16E46              U+16E67U+16E47              U+16E68U+16E48              U+16E69U+16E49              U+16E6AU+16E4A              U+16E6BU+16E4B              U+16E6CU+16E4C              U+16E6DU+16E4D              U+16E6EU+16E4E              U+16E6FU+16E4F              U+16E70U+16E50              U+16E71U+16E51              U+16E72U+16E52              U+16E73U+16E53              U+16E74U+16E54              U+16E75U+16E55              U+16E76U+16E56              U+16E77U+16E57              U+16E78U+16E58              U+16E79U+16E59              U+16E7AU+16E5A              U+16E7BU+16E5B              U+16E7CU+16E5C              U+16E7DU+16E5D              U+16E7EU+16E5E              U+16E7FU+16E5F              U+1E922U+1E900              U+1E923U+1E901              U+1E924U+1E902              U+1E925U+1E903              U+1E926U+1E904              U+1E927U+1E905              U+1E928U+1E906              U+1E929U+1E907              U+1E92AU+1E908              U+1E92BU+1E909              U+1E92CU+1E90A              U+1E92DU+1E90B              U+1E92EU+1E90C              U+1E92FU+1E90D              U+1E930U+1E90E              U+1E931U+1E90F              U+1E932U+1E910              U+1E933U+1E911              U+1E934U+1E912              U+1E935U+1E913              U+1E936U+1E914              U+1E937U+1E915              U+1E938U+1E916              U+1E939U+1E917              U+1E93AU+1E918              U+1E93BU+1E919              U+1E93CU+1E91A              U+1E93DU+1E91B              U+1E93EU+1E91C              U+1E93FU+1E91D              U+1E940U+1E91E              U+1E941U+1E91F              U+1E942U+1E920              U+1E943U+1E921              "

\* str.lower() of the characters it changes, the capital sigma as it is
\* lowered out of the end of a word (a key of 7 places and 2 fields of 7
\* places for the characters of the text)
LowerData ==
    "A      a             B      b             C      c             D      d             E      e             F      f             G      g             H      h             I      i             J      j             K      k             L      l             M      m             N      n             O      o             P      p             Q      q             R      r             S      s             T      t             U      u             V      v             W      w             X      x             Y      y             Z      z             U+00C0 U+00E0        U+00C1 U+00E1        U+00C2 U+00E2        U+00C3 U+00E3        U+00C4 U+00E4        U+00C5 U+00E5        U+00C6 U+00E6        U+00C7 U+00E7        U+00C8 U+00E8        U+00C9 U+00E9        U+00CA U+00EA        U+00CB U+00EB        U+00CC U+00EC        U+00CD U+00ED        U+00CE U+00EE        U+00CF U+00EF        U+00D0 U+00F0        U+00D1 U+00F1        U+00D2 U+00F2        U+00D3 U+00F3        U+00D4 U+00F4        U+00D5 U+00F5        U+00D6 U+00F6        U+00D8 U+00F8        U+00D9 U+00F9        U+00DA U+00FA        U+00DB U+00FB        U+00DC U+00FC        U+00DD U+00FD        U+00DE U+00FE        U+0100 U+0101        U+0102 U+0103        U+0104 U+0105        U+0106 U+0107        U+0108 U+0109        U+010A U+010B        U+010C U+010D        U+010E U+010F        U+0110 U+0111        U+0112 U+0113        U+0114 U+0115        U+0116 U+0117        U+0118 U+0119        U+011A U+011B        U+011C U+011D        U+011E U+011F        U+0120 U+0121        U+0122 U+0123        U+0124 U+0125        U+0126 U+0127        U+0128 U+0129        U+012A U+012B        U+012C U+012D        U+012E U+012F        U+0130 i      U+0307 U+0132 U+0133        U+0134 U+0135        U+0136 U+0137        U+0139 U+013A        U+013B U+013C        U+013D U+013E        U+013F U+0140        U+0141 U+0142        U+0143 U+0144        U+0145 U+0146        U+0147 U+0148        U+014A U+014B        U+014C U+014D        U+014E U+014F        U+0150 U+0151        U+0152 U+0153        U+0154 U+0155        U+0156 U+0157        U+0158 U+0159        U+015A U+015B        U+015C U+015D        U+015E U+015F        U+0160 U+0161        U+0162 U+0163        U+0164 U+0165        U+0166 U+0167        U+0168 U+0169        U+016A U+016B        U+016C U+016D        U+016E U+016F        U+0170 U+0171        U+0172 U+0173        U+0174 U+0175        U+0176 U+0177        U+0178 U+00FF        U+0179 U+017A        U+017B U+017C        U+017D U+017E        U+0181 U+0253        U+0182 U+0183        U+0184 U+0185        U+0186 U+0254        U+0187 U+0188        U+0189 U+0256        U+018A U+0257        U+018B U+018C        U+018E U+01DD        U+018F U+0259        U+0190 U+025B        U+0191 U+0192        U+0193 U+0260        U+0194 U+0263        U+0196 U+0269        U+0197 U+0268        U+0198 U+0199        U+019C U+026F        U+019D U+0272        U+019F U+0275        U+01A0 U+01A1        U+01A2 U+01A3        U+01A4 U+01A5        U+01A6 U+0280        U+01A7 U+01A8        U+01A9 U+0283        U+01AC U+01AD        U+01AE U+0288        U+01AF U+01B0        U+01B1 U+028A        U+01B2 U+028B        U+01B3 U+01B4        U+01B5 U+01B6        U+01B7 U+0292        U+01B8 U+01B9        U+01BC U+01BD        U+01C4 U+01C6        U+01C5 U+01C6        U+01C7 U+01C9        U+01C8 U+01C9        U+01CA U+01CC        U+01CB U+01CC        U+01CD U+01CE        U+01CF U+01D0        U+01D1 U+01D2        U+01D3 U+01D4        U+01D5 U+01D6        U+01D7 U+01D8        U+01D9 U+01DA        U+01DB U+01DC        U+01DE U+01DF        U+01E0 U+01E1        U+01E2 U+01E3        U+01E4 U+01E5        U+01E6 U+01E7        U+01E8 U+01E9        U+01EA U+01EB        U+01EC U+01ED        U+01EE U+01EF        U+01F1 U+01F3        U+01F2 U+01F3        U+01F4 U+01F5        U+01F6 U+0195        U+01F7 U+01BF        U+01F8 U+01F9        U+01FA U+01FB        U+01FC U+01FD        U+01FE U+01FF        U+0200 U+0201        U+0202 U+0203        U+0204 U+0205        "
    \o "U+0206 U+0207        U+0208 U+0209        U+020A U+020B        U+020C U+020D        U+020E U+020F        U+0210 U+0211        U+0212 U+0213        U+0214 U+0215        U+0216 U+0217        U+0218 U+0219        U+021A U+021B        U+021C U+021D        U+021E U+021F        U+0220 U+019E        U+0222 U+0223        U+0224 U+0225        U+0226 U+0227        U+0228 U+0229        U+022A U+022B        U+022C U+022D        U+022E U+022F        U+0230 U+0231        U+0232 U+0233        U+023A U+2C65        U+023B U+023C        U+023D U+019A        U+023E U+2C66        U+0241 U+0242        U+0243 U+0180        U+0244 U+0289        U+0245 U+028C        U+0246 U+0247        U+0248 U+0249        U+024A U+024B        U+024C U+024D        U+024E U+024F        U+0370 U+0371        U+0372 U+0373        U+0376 U+0377        U+037F U+03F3        U+0386 U+03AC        U+0388 U+03AD        U+0389 U+03AE        U+038A U+03AF        U+038C U+03CC        U+038E U+03CD        U+038F U+03CE        U+0391 U+03B1        U+0392 U+03B2        U+0393 U+03B3        U+0394 U+03B4        U+0395 U+03B5        U+0396 U+03B6        U+0397 U+03B7        U+0398 U+03B8        U+0399 U+03B9        U+039A U+03BA        U+039B U+03BB        U+039C U+03BC        U+039D U+03BD        U+039E U+03BE        U+039F U+03BF        U+03A0 U+03C0        U+03A1 U+03C1        U+03A3 U+03C3        U+03A4 U+03C4        U+03A5 U+03C5        U+03A6 U+03C6        U+03A7 U+03C7        U+03A8 U+03C8        U+03A9 U+03C9        U+03AA U+03CA        U+03AB U+03CB        U+03CF U+03D7        U+03D8 U+03D9        U+03DA U+03DB        U+03DC U+03DD        U+03DE U+03DF        U+03E0 U+03E1        U+03E2 U+03E3        U+03E4 U+03E5        U+03E6 U+03E7        U+03E8 U+03E9        U+03EA U+03EB        U+03EC U+03ED        U+03EE U+03EF        U+03F4 U+03B8        U+03F7 U+03F8        U+03F9 U+03F2        U+03FA U+03FB        U+03FD U+037B        U+03FE U+037C        U+03FF U+037D        U+0400 U+0450        U+0401 U+0451        U+0402 U+0452        U+0403 U+0453        U+0404 U+0454        U+0405 U+0455        U+0406 U+0456        U+0407 U+0457        U+0408 U+0458        U+0409 U+0459        U+040A U+045A        U+040B U+045B        U+040C U+045C        U+040D U+045D        U+040E U+045E        U+040F U+045F        U+0410 U+0430        U+0411 U+0431        U+0412 U+0432        U+0413 U+0433        U+0414 U+0434        U+0415 U+0435        U+0416 U+0436        U+0417 U+0437        U+0418 U+0438        U+0419 U+0439        U+041A U+043A        U+041B U+043B        U+041C U+043C        U+041D U+043D        U+041E U+043E        U+041F U+043F        U+0420 U+0440        U+0421 U+0441        U+0422 U+0442        U+0423 U+0443        U+0424 U+0444        U+0425 U+0445        U+0426 U+0446        U+0427 U+0447        U+0428 U+0448        U+0429 U+0449        U+042A U+044A        U+042B U+044B        U+042C U+044C        U+042D U+044D        U+042E U+044E        U+042F U+044F        U+0460 U+0461        U+0462 U+0463        U+0464 U+0465        U+0466 U+0467        U+0468 U+0469        U+046A U+046B        U+046C U+046D        U+046E U+046F        U+0470 U+0471        U+0472 U+0473        U+0474 U+0475        U+0476 U+0477        U+0478 U+0479        U+047A U+047B        U+047C U+047D        U+047E U+047F        U+0480 U+0481        U+048A U+048B        U+048C U+048D        U+048E U+048F        U+0490 U+0491        U+0492 U+0493        U+0494 U+0495        U+0496 U+0497        U+0498 U+0499        U+049A U+049B        U+049C U+049D        U+049E U+049F        U+04A0 U+04A1        U+04A2 U+04A3        U+04A4 U+04A5        U+04A6 U+04A7        U+04A8 U+04A9        U+04AA U+04AB        U+04AC U+04AD        U+04AE U+04AF        U+04B0 U+04B1        U+04B2 U+04B3        U+04B4 U+04B5        U+04B6 U+04B7        U+04B8 U+04B9        U+04BA U+04BB        U+04BC U+04BD        U+04BE U+04BF        U+04C0 U+04CF        U+04C1 U+04C2        U+04C3 U+04C4        U+04C5 U+04C6        U+04C7 U+04C8        "
    \o "U+04C9 U+04CA        U+04CB U+04CC        U+04CD U+04CE        U+04D0 U+04D1        U+04D2 U+04D3        U+04D4 U+04D5        U+04D6 U+04D7        U+04D8 U+04D9        U+04DA U+04DB        U+04DC U+04DD        U+04DE U+04DF        U+04E0 U+04E1        U+04E2 U+04E3        U+04E4 U+04E5        U+04E6 U+04E7        U+04E8 U+04E9        U+04EA U+04EB        U+04EC U+04ED        U+04EE U+04EF        U+04F0 U+04F1        U+04F2 U+04F3        U+04F4 U+04F5        U+04F6 U+04F7        U+04F8 U+04F9        U+04FA U+04FB        U+04FC U+04FD        U+04FE U+04FF        U+0500 U+0501        U+0502 U+0503        U+0504 U+0505        U+0506 U+0507        U+0508 U+0509        U+050A U+050B        U+050C U+050D        U+050E U+050F        U+0510 U+0511        U+0512 U+0513        U+0514 U+0515        U+0516 U+0517        U+0518 U+0519        U+051A U+051B        U+051C U+051D        U+051E U+051F        U+0520 U+0521        U+0522 U+0523        U+0524 U+0525        U+0526 U+0527        U+0528 U+0529        U+052A U+052B        U+052C U+052D        U+052E U+052F        U+0531 U+0561        U+0532 U+0562        U+0533 U+0563        U+0534 U+0564        U+0535 U+0565        U+0536 U+0566        U+0537 U+0567        U+0538 U+0568        U+0539 U+0569        U+053A U+056A        U+053B U+056B        U+053C U+056C        U+053D U+056D        U+053E U+056E        U+053F U+056F        U+0540 U+0570        U+0541 U+0571        U+0542 U+0572        U+0543 U+0573        U+0544 U+0574        U+0545 U+0575        U+0546 U+0576        U+0547 U+0577        U+0548 U+0578        U+0549 U+0579        U+054A U+057A        U+054B U+057B        U+054C U+057C        U+054D U+057D        U+054E U+057E        U+054F U+057F        U+0550 U+0580        U+0551 U+0581        U+0552 U+0582        U+0553 U+0583        U+0554 U+0584        U+0555 U+0585        U+0556 U+0586        U+10A0 U+2D00        U+10A1 U+2D01        U+10A2 U+2D02        U+10A3 U+2D03        U+10A4 U+2D04        U+10A5 U+2D05        U+10A6 U+2D06        U+10A7 U+2D07        U+10A8 U+2D08        U+10A9 U+2D09        U+10AA U+2D0A        U+10AB U+2D0B        U+10AC U+2D0C        U+10AD U+2D0D        U+10AE U+2D0E        U+10AF U+2D0F        U+10B0 U+2D10        U+10B1 U+2D11        U+10B2 U+2D12        U+10B3 U+2D13        U+10B4 U+2D14        U+10B5 U+2D15        U+10B6 U+2D16        U+10B7 U+2D17        U+10B8 U+2D18        U+10B9 U+2D19        U+10BA U+2D1A        U+10BB U+2D1B        U+10BC U+2D1C        U+10BD U+2D1D        U+10BE U+2D1E        U+10BF U+2D1F        U+10C0 U+2D20        U+10C1 U+2D21        U+10C2 U+2D22        U+10C3 U+2D23        U+10C4 U+2D24        U+10C5 U+2D25        U+10C7 U+2D27        U+10CD U+2D2D        U+13A0 U+AB70        U+13A1 U+AB71        U+13A2 U+AB72        U+13A3 U+AB73        U+13A4 U+AB74        U+13A5 U+AB75        U+13A6 U+AB76        U+13A7 U+AB77        U+13A8 U+AB78        U+13A9 U+AB79        U+13AA U+AB7A        U+13AB U+AB7B        U+13AC U+AB7C        U+13AD U+AB7D        U+13AE U+AB7E        U+13AF U+AB7F        U+13B0 U+AB80        U+13B1 U+AB81        U+13B2 U+AB82        U+13B3 U+AB83        U+13B4 U+AB84        U+13B5 U+AB85        U+13B6 U+AB86        U+13B7 U+AB87        U+13B8 U+AB88        U+13B9 U+AB89        U+13BA U+AB8A        U+13BB U+AB8B        U+13BC U+AB8C        U+13BD U+AB8D        U+13BE U+AB8E        U+13BF U+AB8F        U+13C0 U+AB90        U+13C1 U+AB91        U+13C2 U+AB92        U+13C3 U+AB93        U+13C4 U+AB94        U+13C5 U+AB95        U+13C6 U+AB96        U+13C7 U+AB97        U+13C8 U+AB98        U+13C9 U+AB99        U+13CA U+AB9A        U+13CB U+AB9B        U+13CC U+AB9C        U+13CD U+AB9D        U+13CE U+AB9E        U+13CF U+AB9F        U+13D0 U+ABA0        U+13D1 U+ABA1        U+13D2 U+ABA2        U+13D3 U+ABA3        U+13D4 U+ABA4        U+13D5 U+ABA5        U+13D6 U+ABA6        U+13D7 U+ABA7        U+13D8 U+ABA8        U+13D9 U+ABA9        U+13DA U+ABAA        U+13DB U+ABAB        U+13DC U+ABAC        "
    \o "U+13DD U+ABAD        U+13DE U+ABAE        U+13DF U+ABAF        U+13E0 U+ABB0        U+13E1 U+ABB1        U+13E2 U+ABB2        U+13E3 U+ABB3        U+13E4 U+ABB4        U+13E5 U+ABB5        U+13E6 U+ABB6        U+13E7 U+ABB7        U+13E8 U+ABB8        U+13E9 U+ABB9        U+13EA U+ABBA        U+13EB U+ABBB        U+13EC U+ABBC        U+13ED U+ABBD        U+13EE U+ABBE        U+13EF U+ABBF        U+13F0 U+13F8        U+13F1 U+13F9        U+13F2 U+13FA        U+13F3 U+13FB        U+13F4 U+13FC        U+13F5 U+13FD        U+1C90 U+10D0        U+1C91 U+10D1        U+1C92 U+10D2        U+1C93 U+10D3        U+1C94 U+10D4        U+1C95 U+10D5        U+1C96 U+10D6        U+1C97 U+10D7        U+1C98 U+10D8        U+1C99 U+10D9        U+1C9A U+10DA        U+1C9B U+10DB        U+1C9C U+10DC        U+1C9D U+10DD        U+1C9E U+10DE        U+1C9F U+10DF        U+1CA0 U+10E0        U+1CA1 U+10E1        U+1CA2 U+10E2        U+1CA3 U+10E3        U+1CA4 U+10E4        U+1CA5 U+10E5        U+1CA6 U+10E6        U+1CA7 U+10E7        U+1CA8 U+10E8        U+1CA9 U+10E9        U+1CAA U+10EA        U+1CAB U+10EB        U+1CAC U+10EC        U+1CAD U+10ED        U+1CAE U+10EE        U+1CAF U+10EF        U+1CB0 U+10F0        U+1CB1 U+10F1        U+1CB2 U+10F2        U+1CB3 U+10F3        U+1CB4 U+10F4        U+1CB5 U+10F5        U+1CB6 U+10F6        U+1CB7 U+10F7        U+1CB8 U+10F8        U+1CB9 U+10F9        U+1CBA U+10FA        U+1CBD U+10FD        U+1CBE U+10FE        U+1CBF U+10FF        U+1E00 U+1E01        U+1E02 U+1E03        U+1E04 U+1E05        U+1E06 U+1E07        U+1E08 U+1E09        U+1E0A U+1E0B        U+1E0C U+1E0D        U+1E0E U+1E0F        U+1E10 U+1E11        U+1E12 U+1E13        U+1E14 U+1E15        U+1E16 U+1E17        U+1E18 U+1E19        U+1E1A U+1E1B        U+1E1C U+1E1D        U+1E1E U+1E1F        U+1E20 U+1E21        U+1E22 U+1E23        U+1E24 U+1E25        U+1E26 U+1E27        U+1E28 U+1E29        U+1E2A U+1E2B        U+1E2C U+1E2D        U+1E2E U+1E2F        U+1E30 U+1E31        U+1E32 U+1E33        U+1E34 U+1E35        U+1E36 U+1E37        U+1E38 U+1E39        U+1E3A U+1E3B        U+1E3C U+1E3D        U+1E3E U+1E3F        U+1E40 U+1E41        U+1E42 U+1E43        U+1E44 U+1E45        U+1E46 U+1E47        U+1E48 U+1E49        U+1E4A U+1E4B        U+1E4C U+1E4D        U+1E4E U+1E4F        U+1E50 U+1E51        U+1E52 U+1E53        U+1E54 U+1E55        U+1E56 U+1E57        U+1E58 U+1E59        U+1E5A U+1E5B        U+1E5C U+1E5D        U+1E5E U+1E5F        U+1E60 U+1E61        U+1E62 U+1E63        U+1E64 U+1E65        U+1E66 U+1E67        U+1E68 U+1E69        U+1E6A U+1E6B        U+1E6C U+1E6D        U+1E6E U+1E6F        U+1E70 U+1E71        U+1E72 U+1E73        U+1E74 U+1E75        U+1E76 U+1E77        U+1E78 U+1E79        U+1E7A U+1E7B        U+1E7C U+1E7D        U+1E7E U+1E7F        U+1E80 U+1E81        U+1E82 U+1E83        U+1E84 U+1E85        U+1E86 U+1E87        U+1E88 U+1E89        U+1E8A U+1E8B        U+1E8C U+1E8D        U+1E8E U+1E8F        U+1E90 U+1E91        U+1E92 U+1E93        U+1E94 U+1E95        U+1E9E U+00DF        U+1EA0 U+1EA1        U+1EA2 U+1EA3        U+1EA4 U+1EA5        U+1EA6 U+1EA7        U+1EA8 U+1EA9        U+1EAA U+1EAB        U+1EAC U+1EAD        U+1EAE U+1EAF        U+1EB0 U+1EB1        U+1EB2 U+1EB3        U+1EB4 U+1EB5        U+1EB6 U+1EB7        U+1EB8 U+1EB9        U+1EBA U+1EBB        U+1EBC U+1EBD        U+1EBE U+1EBF        U+1EC0 U+1EC1        U+1EC2 U+1EC3        U+1EC4 U+1EC5        U+1EC6 U+1EC7        U+1EC8 U+1EC9        U+1ECA U+1ECB        U+1ECC U+1ECD        U+1ECE U+1ECF        U+1ED0 U+1ED1        U+1ED2 U+1ED3        U+1ED4 U+1ED5        U+1ED6 U+1ED7        U+1ED8 U+1ED9        U+1EDA U+1EDB        U+1EDC U+1EDD        U+1EDE U+1EDF        U+1EE0 U+1EE1        U+1EE2 U+1EE3        U+1EE4 U+1EE5        U+1EE6 U+1EE7        U+1EE8 U+1EE9        U+1EEA U+1EEB        U+1EEC U+1EED        U+1EEE U+1EEF        U+1EF0 U+1EF1        U+1EF2 U+1EF3        U+1EF4 U+1EF5        "
    \o "U+1EF6 U+1EF7        U+1EF8 U+1EF9        U+1EFA U+1EFB        U+1EFC U+1EFD        U+1EFE U+1EFF        U+1F08 U+1F00        U+1F09 U+1F01        U+1F0A U+1F02        U+1F0B U+1F03        U+1F0C U+1F04        U+1F0D U+1F05        U+1F0E U+1F06        U+1F0F U+1F07        U+1F18 U+1F10        U+1F19 U+1F11        U+1F1A U+1F12        U+1F1B U+1F13        U+1F1C U+1F14        U+1F1D U+1F15        U+1F28 U+1F20        U+1F29 U+1F21        U+1F2A U+1F22        U+1F2B U+1F23        U+1F2C U+1F24        U+1F2D U+1F25        U+1F2E U+1F26        U+1F2F U+1F27        U+1F38 U+1F30        U+1F39 U+1F31        U+1F3A U+1F32        U+1F3B U+1F33        U+1F3C U+1F34        U+1F3D U+1F35        U+1F3E U+1F36        U+1F3F U+1F37        U+1F48 U+1F40        U+1F49 U+1F41        U+1F4A U+1F42        U+1F4B U+1F43        U+1F4C U+1F44        U+1F4D U+1F45        U+1F59 U+1F51        U+1F5B U+1F53        U+1F5D U+1F55        U+1F5F U+1F57        U+1F68 U+1F60        U+1F69 U+1F61        U+1F6A U+1F62        U+1F6B U+1F63        U+1F6C U+1F64        U+1F6D U+1F65        U+1F6E U+1F66        U+1F6F U+1F67        U+1F88 U+1F80        U+1F89 U+1F81        U+1F8A U+1F82        U+1F8B U+1F83        U+1F8C U+1F84        U+1F8D U+1F85        U+1F8E U+1F86        U+1F8F U+1F87        U+1F98 U+1F90        U+1F99 U+1F91        U+1F9A U+1F92        U+1F9B U+1F93        U+1F9C U+1F94        U+1F9D U+1F95        U+1F9E U+1F96        U+1F9F U+1F97        U+1FA8 U+1FA0        U+1FA9 U+1FA1        U+1FAA U+1FA2        U+1FAB U+1FA3        U+1FAC U+1FA4        U+1FAD U+1FA5        U+1FAE U+1FA6        U+1FAF U+1FA7        U+1FB8 U+1FB0        U+1FB9 U+1FB1        U+1FBA U+1F70        U+1FBB U+1F71        U+1FBC U+1FB3        U+1FC8 U+1F72        U+1FC9 U+1F73        U+1FCA U+1F74        U+1FCB U+1F75        U+1FCC U+1FC3        U+1FD8 U+1FD0        U+1FD9 U+1FD1        U+1FDA U+1F76        U+1FDB U+1F77        U+1FE8 U+1FE0        U+1FE9 U+1FE1        U+1FEA U+1F7A        U+1FEB U+1F7B        U+1FEC U+1FE5        U+1FF8 U+1F78        U+1FF9 U+1F79        U+1FFA U+1F7C        U+1FFB U+1F7D        U+1FFC U+1FF3        U+2126 U+03C9        U+212A k             U+212B U+00E5        U+2132 U+214E        U+2160 U+2170        U+2161 U+2171        U+2162 U+2172        U+2163 U+2173        U+2164 U+2174        U+2165 U+2175        U+2166 U+2176        U+2167 U+2177        U+2168 U+2178        U+2169 U+2179        U+216A U+217A        U+216B U+217B        U+216C U+217C        U+216D U+217D        U+216E U+217E        U+216F U+217F        U+2183 U+2184        U+24B6 U+24D0        U+24B7 U+24D1        U+24B8 U+24D2        U+24B9 U+24D3        U+24BA U+24D4        U+24BB U+24D5        U+24BC U+24D6        U+24BD U+24D7        U+24BE U+24D8        U+24BF U+24D9        U+24C0 U+24DA        U+24C1 U+24DB        U+24C2 U+24DC        U+24C3 U+24DD        U+24C4 U+24DE        U+24C5 U+24DF        U+24C6 U+24E0        U+24C7 U+24E1        U+24C8 U+24E2        U+24C9 U+24E3        U+24CA U+24E4        U+24CB U+24E5        U+24CC U+24E6        U+24CD U+24E7        U+24CE U+24E8        U+24CF U+24E9        U+2C00 U+2C30        U+2C01 U+2C31        U+2C02 U+2C32        U+2C03 U+2C33        U+2C04 U+2C34        U+2C05 U+2C35        U+2C06 U+2C36        U+2C07 U+2C37        U+2C08 U+2C38        U+2C09 U+2C39        U+2C0A U+2C3A        U+2C0B U+2C3B        U+2C0C U+2C3C        U+2C0D U+2C3D        U+2C0E U+2C3E        U+2C0F U+2C3F        U+2C10 U+2C40        U+2C11 U+2C41        U+2C12 U+2C42        U+2C13 U+2C43        U+2C14 U+2C44        U+2C15 U+2C45        U+2C16 U+2C46        U+2C17 U+2C47        U+2C18 U+2C48        U+2C19 U+2C49        U+2C1A U+2C4A        U+2C1B U+2C4B        U+2C1C U+2C4C        U+2C1D U+2C4D        U+2C1E U+2C4E        U+2C1F U+2C4F        U+2C20 U+2C50        U+2C21 U+2C51        U+2C22 U+2C52        U+2C23 U+2C53        U+2C24 U+2C54        U+2C25 U+2C55        U+2C26 U+2C56        U+2C27 U+2C57        U+2C28 U+2C58        U+2C29 U+2C59        "
    \o "U+2C2A U+2C5A        U+2C2B U+2C5B        U+2C2C U+2C5C        U+2C2D U+2C5D        U+2C2E U+2C5E        U+2C2F U+2C5F        U+2C60 U+2C61        U+2C62 U+026B        U+2C63 U+1D7D        U+2C64 U+027D        U+2C67 U+2C68        U+2C69 U+2C6A        U+2C6B U+2C6C        U+2C6D U+0251        U+2C6E U+0271        U+2C6F U+0250        U+2C70 U+0252        U+2C72 U+2C73        U+2C75 U+2C76        U+2C7E U+023F        U+2C7F U+0240        U+2C80 U+2C81        U+2C82 U+2C83        U+2C84 U+2C85        U+2C86 U+2C87        U+2C88 U+2C89        U+2C8A U+2C8B        U+2C8C U+2C8D        U+2C8E U+2C8F        U+2C90 U+2C91        U+2C92 U+2C93        U+2C94 U+2C95        U+2C96 U+2C97        U+2C98 U+2C99        U+2C9A U+2C9B        U+2C9C U+2C9D        U+2C9E U+2C9F        U+2CA0 U+2CA1        U+2CA2 U+2CA3        U+2CA4 U+2CA5        U+2CA6 U+2CA7        U+2CA8 U+2CA9        U+2CAA U+2CAB        U+2CAC U+2CAD        U+2CAE U+2CAF        U+2CB0 U+2CB1        U+2CB2 U+2CB3        U+2CB4 U+2CB5        U+2CB6 U+2CB7        U+2CB8 U+2CB9        U+2CBA U+2CBB        U+2CBC U+2CBD        U+2CBE U+2CBF        U+2CC0 U+2CC1        U+2CC2 U+2CC3        U+2CC4 U+2CC5        U+2CC6 U+2CC7        U+2CC8 U+2CC9        U+2CCA U+2CCB        U+2CCC U+2CCD        U+2CCE U+2CCF        U+2CD0 U+2CD1        U+2CD2 U+2CD3        U+2CD4 U+2CD5        U+2CD6 U+2CD7        U+2CD8 U+2CD9        U+2CDA U+2CDB        U+2CDC U+2CDD        U+2CDE U+2CDF        U+2CE0 U+2CE1        U+2CE2 U+2CE3        U+2CEB U+2CEC        U+2CED U+2CEE        U+2CF2 U+2CF3        U+A640 U+A641        U+A642 U+A643        U+A644 U+A645        U+A646 U+A647        U+A648 U+A649        U+A64A U+A64B        U+A64C U+A64D        U+A64E U+A64F        U+A650 U+A651        U+A652 U+A653        U+A654 U+A655        U+A656 U+A657        U+A658 U+A659        U+A65A U+A65B        U+A65C U+A65D        U+A65E U+A65F        U+A660 U+A661        U+A662 U+A663        U+A664 U+A665        U+A666 U+A667        U+A668 U+A669        U+A66A U+A66B        U+A66C U+A66D        U+A680 U+A681        U+A682 U+A683        U+A684 U+A685        U+A686 U+A687        U+A688 U+A689        U+A68A U+A68B        U+A68C U+A68D        U+A68E U+A68F        U+A690 U+A691        U+A692 U+A693        U+A694 U+A695        U+A696 U+A697        U+A698 U+A699        U+A69A U+A69B        U+A722 U+A723        U+A724 U+A725        U+A726 U+A727        U+A728 U+A729        U+A72A U+A72B        U+A72C U+A72D        U+A72E U+A72F        U+A732 U+A733        U+A734 U+A735        U+A736 U+A737        U+A738 U+A739        U+A73A U+A73B        U+A73C U+A73D        U+A73E U+A73F        U+A740 U+A741        U+A742 U+A743        U+A744 U+A745        U+A746 U+A747        U+A748 U+A749        U+A74A U+A74B        U+A74C U+A74D        U+A74E U+A74F        U+A750 U+A751        U+A752 U+A753        U+A754 U+A755        U+A756 U+A757        U+A758 U+A759        U+A75A U+A75B        U+A75C U+A75D        U+A75E U+A75F        U+A760 U+A761        U+A762 U+A763        U+A764 U+A765        U+A766 U+A767        U+A768 U+A769        U+A76A U+A76B        U+A76C U+A76D        U+A76E U+A76F        U+A779 U+A77A        U+A77B U+A77C        U+A77D U+1D79        U+A77E U+A77F        U+A780 U+A781        U+A782 U+A783        U+A784 U+A785        U+A786 U+A787        U+A78B U+A78C        U+A78D U+0265        U+A790 U+A791        U+A792 U+A793        U+A796 U+A797        U+A798 U+A799        U+A79A U+A79B        U+A79C U+A79D        U+A79E U+A79F        U+A7A0 U+A7A1        U+A7A2 U+A7A3        U+A7A4 U+A7A5        U+A7A6 U+A7A7        U+A7A8 U+A7A9        U+A7AA U+0266        U+A7AB U+025C        U+A7AC U+0261        U+A7AD U+026C        U+A7AE U+026A        U+A7B0 U+029E        U+A7B1 U+0287        U+A7B2 U+029D        U+A7B3 U+AB53        U+A7B4 U+A7B5        U+A7B6 U+A7B7        U+A7B8 U+A7B9        U+A7BA U+A7BB        U+A7BC U+A7BD        U+A7BE U+A7BF        U+A7C0 U+A7C1        U+A7C2 U+A7C3        U+A7C4 U+A794        U+A7C5 U+0282        "
    \o "U+A7C6 U+1D8E        U+A7C7 U+A7C8        U+A7C9 U+A7CA        U+A7D0 U+A7D1        U+A7D6 U+A7D7        U+A7D8 U+A7D9        U+A7F5 U+A7F6        U+FF21 U+FF41        U+FF22 U+FF42        U+FF23 U+FF43        U+FF24 U+FF44        U+FF25 U+FF45        U+FF26 U+FF46        U+FF27 U+FF47        U+FF28 U+FF48        U+FF29 U+FF49        U+FF2A U+FF4A        U+FF2B U+FF4B        U+FF2C U+FF4C        U+FF2D U+FF4D        U+FF2E U+FF4E        U+FF2F U+FF4F        U+FF30 U+FF50        U+FF31 U+FF51        U+FF32 U+FF52        U+FF33 U+FF53        U+FF34 U+FF54        U+FF35 U+FF55        U+FF36 U+FF56        U+FF37 U+FF57        U+FF38 U+FF58        U+FF39 U+FF59        U+FF3A U+FF5A        U+10400U+10428       U+10401U+10429       U+10402U+1042A       U+10403U+1042B       U+10404U+1042C       U+10405U+1042D       U+10406U+1042E       U+10407U+1042F       U+10408U+10430       U+10409U+10431       U+1040AU+10432       U+1040BU+10433       U+1040CU+10434       U+1040DU+10435       U+1040EU+10436       U+1040FU+10437       U+10410U+10438       U+10411U+10439       U+10412U+1043A       U+10413U+1043B       U+10414U+1043C       U+10415U+1043D       U+10416U+1043E       U+10417U+1043F       U+10418U+10440       U+10419U+10441       U+1041AU+10442       U+1041BU+10443       U+1041CU+10444       U+1041DU+10445       U+1041EU+10446       U+1041FU+10447       U+10420U+10448       U+10421U+10449       U+10422U+1044A       U+10423U+1044B       U+10424U+1044C       U+10425U+1044D       U+10426U+1044E       U+10427U+1044F       U+104B0U+104D8       U+104B1U+104D9       U+104B2U+104DA       U+104B3U+104DB       U+104B4U+104DC       U+104B5U+104DD       U+104B6U+104DE       U+104B7U+104DF       U+104B8U+104E0       U+104B9U+104E1       U+104BAU+104E2       U+104BBU+104E3       U+104BCU+104E4       U+104BDU+104E5       U+104BEU+104E6       U+104BFU+104E7       U+104C0U+104E8       U+104C1U+104E9       U+104C2U+104EA       U+104C3U+104EB       U+104C4U+104EC       U+104C5U+104ED       U+104C6U+104EE       U+104C7U+104EF       U+104C8U+104F0       U+104C9U+104F1       U+104CAU+104F2       U+104CBU+104F3       U+104CCU+104F4       U+104CDU+104F5       U+104CEU+104F6       U+104CFU+104F7       U+104D0U+104F8       U+104D1U+104F9       U+104D2U+104FA       U+104D3U+104FB       U+10570U+10597       U+10571U+10598       U+10572U+10599       U+10573U+1059A       U+10574U+1059B       U+10575U+1059C       U+10576U+1059D       U+10577U+1059E       U+10578U+1059F       U+10579U+105A0       U+1057AU+105A1       U+1057CU+105A3       U+1057DU+105A4       U+1057EU+105A5       U+1057FU+105A6       U+10580U+105A7       U+10581U+105A8       U+10582U+105A9       U+10583U+105AA       U+10584U+105AB       U+10585U+105AC       U+10586U+105AD       U+10587U+105AE       U+10588U+105AF       U+10589U+105B0       U+1058AU+105B1       U+1058CU+105B3       U+1058DU+105B4       U+1058EU+105B5       U+1058FU+105B6       U+10590U+105B7       U+10591U+105B8       U+10592U+105B9       U+10594U+105BB       U+10595U+105BC       U+10C80U+10CC0       U+10C81U+10CC1       U+10C82U+10CC2       U+10C83U+10CC3       U+10C84U+10CC4       U+10C85U+10CC5       U+10C86U+10CC6       U+10C87U+10CC7       U+10C88U+10CC8       U+10C89U+10CC9       U+10C8AU+10CCA       U+10C8BU+10CCB       U+10C8CU+10CCC       U+10C8DU+10CCD       U+10C8EU+10CCE       U+10C8FU+10CCF       U+10C90U+10CD0       U+10C91U+10CD1       U+10C92U+10CD2       U+10C93U+10CD3       U+10C94U+10CD4       U+10C95U+10CD5       U+10C96U+10CD6       U+10C97U+10CD7       U+10C98U+10CD8       U+10C99U+10CD9       U+10C9AU+10CDA       U+10C9BU+10CDB       U+10C9CU+10CDC       U+10C9DU+10CDD       U+10C9EU+10CDE       U+10C9FU+10CDF       U+10CA0U+10CE0       U+10CA1U+10CE1       U+10CA2U+10CE2       U+10CA3U+10CE3       U+10CA4U+10CE4       U+10CA5U+10CE5       U+10CA6U+10CE6       U+10CA7U+10CE7       U+10CA8U+10CE8       U+10CA9U+10CE9       U+10CAAU+10CEA       U+10CABU+10CEB       U+10CACU+10CEC       U+10CADU+10CED       "
    \o "U+10CAEU+10CEE       U+10CAFU+10CEF       U+10CB0U+10CF0       U+10CB1U+10CF1       U+10CB2U+10CF2       U+118A0U+118C0       U+118A1U+118C1       U+118A2U+118C2       U+118A3U+118C3       U+118A4U+118C4       U+118A5U+118C5       U+118A6U+118C6       U+118A7U+118C7       U+118A8U+118C8       U+118A9U+118C9       U+118AAU+118CA       U+118ABU+118CB       U+118ACU+118CC       U+118ADU+118CD       U+118AEU+118CE       U+118AFU+118CF       U+118B0U+118D0       U+118B1U+118D1       U+118B2U+118D2       U+118B3U+118D3       U+118B4U+118D4       U+118B5U+118D5       U+118B6U+118D6       U+118B7U+118D7       U+118B8U+118D8       U+118B9U+118D9       U+118BAU+118DA       U+118BBU+118DB       U+118BCU+118DC       U+118BDU+118DD       U+118BEU+118DE       U+118BFU+118DF       U+16E40U+16E60       U+16E41U+16E61       U+16E42U+16E62       U+16E43U+16E63       U+16E44U+16E64       U+16E45U+16E65       U+16E46U+16E66       U+16E47U+16E67       U+16E48U+16E68       U+16E49U+16E69       U+16E4AU+16E6A       U+16E4BU+16E6B       U+16E4CU+16E6C       U+16E4DU+16E6D       U+16E4EU+16E6E       U+16E4FU+16E6F       U+16E50U+16E70       U+16E51U+16E71       U+16E52U+16E72       U+16E53U+16E73       U+16E54U+16E74       U+16E55U+16E75       U+16E56U+16E76       U+16E57U+16E77       U+16E58U+16E78       U+16E59U+16E79       U+16E5AU+16E7A       U+16E5BU+16E7B       U+16E5CU+16E7C       U+16E5DU+16E7D       U+16E5EU+16E7E       U+16E5FU+16E7F       U+1E900U+1E922       U+1E901U+1E923       U+1E902U+1E924       U+1E903U+1E925       U+1E904U+1E926       U+1E905U+1E927       U+1E906U+1E928       U+1E907U+1E929       U+1E908U+1E92A       U+1E909U+1E92B       U+1E90AU+1E92C       U+1E90BU+1E92D       U+1E90CU+1E92E       U+1E90DU+1E92F       U+1E90EU+1E930       U+1E90FU+1E931       U+1E910U+1E932       U+1E911U+1E933       U+1E912U+1E934       U+1E913U+1E935       U+1E914U+1E936       U+1E915U+1E937       U+1E916U+1E938       U+1E917U+1E939       U+1E918U+1E93A       U+1E919U+1E93B       U+1E91AU+1E93C       U+1E91BU+1E93D       U+1E91CU+1E93E       U+1E91DU+1E93F       U+1E91EU+1E940       U+1E91FU+1E941       U+1E920U+1E942       U+1E921U+1E943       "

\* the title case of the characters that have one (a key of 7 places and 3
\* fields of 7 places for the characters of the text)
TitleData ==
    "a      A                    b      B                    c      C                    d      D                    e      E                    f      F                    g      G                    h      H                    i      I                    j      J                    k      K                    l      L                    m      M                    n      N                    o      O                    p      P                    q      Q                    r      R                    s      S                    t      T                    u      U                    v      V                    w      W                    x      X                    y      Y                    z      Z                    U+00B5 U+039C               U+00DF S      s             U+00E0 U+00C0               U+00E1 U+00C1               U+00E2 U+00C2               U+00E3 U+00C3               U+00E4 U+00C4               U+00E5 U+00C5               U+00E6 U+00C6               U+00E7 U+00C7               U+00E8 U+00C8               U+00E9 U+00C9               U+00EA U+00CA               U+00EB U+00CB               U+00EC U+00CC               U+00ED U+00CD               U+00EE U+00CE               U+00EF U+00CF               U+00F0 U+00D0               U+00F1 U+00D1               U+00F2 U+00D2               U+00F3 U+00D3               U+00F4 U+00D4               U+00F5 U+00D5               U+00F6 U+00D6               U+00F8 U+00D8               U+00F9 U+00D9               U+00FA U+00DA               U+00FB U+00DB               U+00FC U+00DC               U+00FD U+00DD               U+00FE U+00DE               U+00FF U+0178               U+0101 U+0100               U+0103 U+0102               U+0105 U+0104               U+0107 U+0106               U+0109 U+0108               U+010B U+010A               U+010D U+010C               U+010F U+010E               U+0111 U+0110               U+0113 U+0112               U+0115 U+0114               U+0117 U+0116               U+0119 U+0118               U+011B U+011A               U+011D U+011C               U+011F U+011E               U+0121 U+0120               U+0123 U+0122               U+0125 U+0124               U+0127 U+0126               U+0129 U+0128               U+012B U+012A               U+012D U+012C               U+012F U+012E               U+0131 I                    U+0133 U+0132               U+0135 U+0134               U+0137 U+0136               U+013A U+0139               U+013C U+013B               U+013E U+013D               U+0140 U+013F               U+0142 U+0141               U+0144 U+0143               U+0146 U+0145               U+0148 U+0147               U+0149 U+02BC N             U+014B U+014A               U+014D U+014C               U+014F U+014E               U+0151 U+0150               U+0153 U+0152               U+0155 U+0154               U+0157 U+0156               U+0159 U+0158               U+015B U+015A               U+015D U+015C               U+015F U+015E               U+0161 U+0160               U+0163 U+0162               U+0165 U+0164               U+0167 U+0166               U+0169 U+0168               U+016B U+016A               U+016D U+016C               U+016F U+016E               U+0171 U+0170               U+0173 U+0172               U+0175 U+0174               U+0177 U+0176               U+017A U+0179               U+017C U+017B               U+017E U+017D               U+017F S                    U+0180 U+0243               U+0183 U+0182               U+0185 U+0184               U+0188 U+0187               U+018C U+018B               U+0192 U+0191               U+0195 U+01F6               U+0199 U+0198               U+019A U+023D               U+019E U+0220               U+01A1 U+01A0               U+01A3 U+01A2               U+01A5 U+01A4               U+01A8 U+01A7               U+01AD U+01AC               U+01B0 U+01AF               U+01B4 U+01B3               U+01B6 U+01B5               U+01B9 U+01B8               "
    \o "U+01BD U+01BC               U+01BF U+01F7               U+01C4 U+01C5               U+01C6 U+01C5               U+01C7 U+01C8               U+01C9 U+01C8               U+01CA U+01CB               U+01CC U+01CB               U+01CE U+01CD               U+01D0 U+01CF               U+01D2 U+01D1               U+01D4 U+01D3               U+01D6 U+01D5               U+01D8 U+01D7               U+01DA U+01D9               U+01DC U+01DB               U+01DD U+018E               U+01DF U+01DE               U+01E1 U+01E0               U+01E3 U+01E2               U+01E5 U+01E4               U+01E7 U+01E6               U+01E9 U+01E8               U+01EB U+01EA               U+01ED U+01EC               U+01EF U+01EE               U+01F0 J      U+030C        U+01F1 U+01F2               U+01F3 U+01F2               U+01F5 U+01F4               U+01F9 U+01F8               U+01FB U+01FA               U+01FD U+01FC               U+01FF U+01FE               U+0201 U+0200               U+0203 U+0202               U+0205 U+0204               U+0207 U+0206               U+0209 U+0208               U+020B U+020A               U+020D U+020C               U+020F U+020E               U+0211 U+0210               U+0213 U+0212               U+0215 U+0214               U+0217 U+0216               U+0219 U+0218               U+021B U+021A               U+021D U+021C               U+021F U+021E               U+0223 U+0222               U+0225 U+0224               U+0227 U+0226               U+0229 U+0228               U+022B U+022A               U+022D U+022C               U+022F U+022E               U+0231 U+0230               U+0233 U+0232               U+023C U+023B               U+023F U+2C7E               U+0240 U+2C7F               U+0242 U+0241               U+0247 U+0246               U+0249 U+0248               U+024B U+024A               U+024D U+024C               U+024F U+024E               U+0250 U+2C6F               U+0251 U+2C6D               U+0252 U+2C70               U+0253 U+0181               U+0254 U+0186               U+0256 U+0189               U+0257 U+018A               U+0259 U+018F               U+025B U+0190               U+025C U+A7AB               U+0260 U+0193               U+0261 U+A7AC               U+0263 U+0194               U+0265 U+A78D               U+0266 U+A7AA               U+0268 U+0197               U+0269 U+0196               U+026A U+A7AE               U+026B U+2C62               U+026C U+A7AD               U+026F U+019C               U+0271 U+2C6E               U+0272 U+019D               U+0275 U+019F               U+027D U+2C64               U+0280 U+01A6               U+0282 U+A7C5               U+0283 U+01A9               U+0287 U+A7B1               U+0288 U+01AE               U+0289 U+0244               U+028A U+01B1               U+028B U+01B2               U+028C U+0245               U+0292 U+01B7               U+029D U+A7B2               U+029E U+A7B0               U+0345 U+0399               U+0371 U+0370               U+0373 U+0372               U+0377 U+0376               U+037B U+03FD               U+037C U+03FE               U+037D U+03FF               U+0390 U+0399 U+0308 U+0301 U+03AC U+0386               U+03AD U+0388               U+03AE U+0389               U+03AF U+038A               U+03B0 U+03A5 U+0308 U+0301 U+03B1 U+0391               U+03B2 U+0392               U+03B3 U+0393               U+03B4 U+0394               U+03B5 U+0395               U+03B6 U+0396               U+03B7 U+0397               U+03B8 U+0398               U+03B9 U+0399               U+03BA U+039A               U+03BB U+039B               U+03BC U+039C               U+03BD U+039D               U+03BE U+039E               U+03BF U+039F               U+03C0 U+03A0               U+03C1 U+03A1               U+03C2 U+03A3               U+03C3 U+03A3               U+03C4 U+03A4               U+03C5 U+03A5               U+03C6 U+03A6               U+03C7 U+03A7               U+03C8 U+03A8               "
    \o "U+03C9 U+03A9               U+03CA U+03AA               U+03CB U+03AB               U+03CC U+038C               U+03CD U+038E               U+03CE U+038F               U+03D0 U+0392               U+03D1 U+0398               U+03D5 U+03A6               U+03D6 U+03A0               U+03D7 U+03CF               U+03D9 U+03D8               U+03DB U+03DA               U+03DD U+03DC               U+03DF U+03DE               U+03E1 U+03E0               U+03E3 U+03E2               U+03E5 U+03E4               U+03E7 U+03E6               U+03E9 U+03E8               U+03EB U+03EA               U+03ED U+03EC               U+03EF U+03EE               U+03F0 U+039A               U+03F1 U+03A1               U+03F2 U+03F9               U+03F3 U+037F               U+03F5 U+0395               U+03F8 U+03F7               U+03FB U+03FA               U+0430 U+0410               U+0431 U+0411               U+0432 U+0412               U+0433 U+0413               U+0434 U+0414               U+0435 U+0415               U+0436 U+0416               U+0437 U+0417               U+0438 U+0418               U+0439 U+0419               U+043A U+041A               U+043B U+041B               U+043C U+041C               U+043D U+041D               U+043E U+041E               U+043F U+041F               U+0440 U+0420               U+0441 U+0421               U+0442 U+0422               U+0443 U+0423               U+0444 U+0424               U+0445 U+0425               U+0446 U+0426               U+0447 U+0427               U+0448 U+0428               U+0449 U+0429               U+044A U+042A               U+044B U+042B               U+044C U+042C               U+044D U+042D               U+044E U+042E               U+044F U+042F               U+0450 U+0400               U+0451 U+0401               U+0452 U+0402               U+0453 U+0403               U+0454 U+0404               U+0455 U+0405               U+0456 U+0406               U+0457 U+0407               U+0458 U+0408               U+0459 U+0409               U+045A U+040A               U+045B U+040B               U+045C U+040C               U+045D U+040D               U+045E U+040E               U+045F U+040F               U+0461 U+0460               U+0463 U+0462               U+0465 U+0464               U+0467 U+0466               U+0469 U+0468               U+046B U+046A               U+046D U+046C               U+046F U+046E               U+0471 U+0470               U+0473 U+0472               U+0475 U+0474               U+0477 U+0476               U+0479 U+0478               U+047B U+047A               U+047D U+047C               U+047F U+047E               U+0481 U+0480               U+048B U+048A               U+048D U+048C               U+048F U+048E               U+0491 U+0490               U+0493 U+0492               U+0495 U+0494               U+0497 U+0496               U+0499 U+0498               U+049B U+049A               U+049D U+049C               U+049F U+049E               U+04A1 U+04A0               U+04A3 U+04A2               U+04A5 U+04A4               U+04A7 U+04A6               U+04A9 U+04A8               U+04AB U+04AA               U+04AD U+04AC               U+04AF U+04AE               U+04B1 U+04B0               U+04B3 U+04B2               U+04B5 U+04B4               U+04B7 U+04B6               U+04B9 U+04B8               U+04BB U+04BA               U+04BD U+04BC               U+04BF U+04BE               U+04C2 U+04C1               U+04C4 U+04C3               U+04C6 U+04C5               U+04C8 U+04C7               U+04CA U+04C9               U+04CC U+04CB               U+04CE U+04CD               U+04CF U+04C0               U+04D1 U+04D0               U+04D3 U+04D2               U+04D5 U+04D4               U+04D7 U+04D6               U+04D9 U+04D8               U+04DB U+04DA               U+04DD U+04DC               U+04DF U+04DE               U+04E1 U+04E0               U+04E3 U+04E2               U+04E5 U+04E4               U+04E7 U+04E6               "
    \o "U+04E9 U+04E8               U+04EB U+04EA               U+04ED U+04EC               U+04EF U+04EE               U+04F1 U+04F0               U+04F3 U+04F2               U+04F5 U+04F4               U+04F7 U+04F6               U+04F9 U+04F8               U+04FB U+04FA               U+04FD U+04FC               U+04FF U+04FE               U+0501 U+0500               U+0503 U+0502               U+0505 U+0504               U+0507 U+0506               U+0509 U+0508               U+050B U+050A               U+050D U+050C               U+050F U+050E               U+0511 U+0510               U+0513 U+0512               U+0515 U+0514               U+0517 U+0516               U+0519 U+0518               U+051B U+051A               U+051D U+051C               U+051F U+051E               U+0521 U+0520               U+0523 U+0522               U+0525 U+0524               U+0527 U+0526               U+0529 U+0528               U+052B U+052A               U+052D U+052C               U+052F U+052E               U+0561 U+0531               U+0562 U+0532               U+0563 U+0533               U+0564 U+0534               U+0565 U+0535               U+0566 U+0536               U+0567 U+0537               U+0568 U+0538               U+0569 U+0539               U+056A U+053A               U+056B U+053B               U+056C U+053C               U+056D U+053D               U+056E U+053E               U+056F U+053F               U+0570 U+0540               U+0571 U+0541               U+0572 U+0542               U+0573 U+0543               U+0574 U+0544               U+0575 U+0545               U+0576 U+0546               U+0577 U+0547               U+0578 U+0548               U+0579 U+0549               U+057A U+054A               U+057B U+054B               U+057C U+054C               U+057D U+054D               U+057E U+054E               U+057F U+054F               U+0580 U+0550               U+0581 U+0551               U+0582 U+0552               U+0583 U+0553               U+0584 U+0554               U+0585 U+0555               U+0586 U+0556               U+0587 U+0535 U+0582        U+13F8 U+13F0               U+13F9 U+13F1               U+13FA U+13F2               U+13FB U+13F3               U+13FC U+13F4               U+13FD U+13F5               U+1C80 U+0412               U+1C81 U+0414               U+1C82 U+041E               U+1C83 U+0421               U+1C84 U+0422               U+1C85 U+0422               U+1C86 U+042A               U+1C87 U+0462               U+1C88 U+A64A               U+1D79 U+A77D               U+1D7D U+2C63               U+1D8E U+A7C6               U+1E01 U+1E00               U+1E03 U+1E02               U+1E05 U+1E04               U+1E07 U+1E06               U+1E09 U+1E08               U+1E0B U+1E0A               U+1E0D U+1E0C               U+1E0F U+1E0E               U+1E11 U+1E10               U+1E13 U+1E12               U+1E15 U+1E14               U+1E17 U+1E16               U+1E19 U+1E18               U+1E1B U+1E1A               U+1E1D U+1E1C               U+1E1F U+1E1E               U+1E21 U+1E20               U+1E23 U+1E22               U+1E25 U+1E24               U+1E27 U+1E26               U+1E29 U+1E28               U+1E2B U+1E2A               U+1E2D U+1E2C               U+1E2F U+1E2E               U+1E31 U+1E30               U+1E33 U+1E32               U+1E35 U+1E34               U+1E37 U+1E36               U+1E39 U+1E38               U+1E3B U+1E3A               U+1E3D U+1E3C               U+1E3F U+1E3E               U+1E41 U+1E40               U+1E43 U+1E42               U+1E45 U+1E44               U+1E47 U+1E46               U+1E49 U+1E48               U+1E4B U+1E4A               U+1E4D U+1E4C               U+1E4F U+1E4E               U+1E51 U+1E50               U+1E53 U+1E52               U+1E55 U+1E54               U+1E57 U+1E56               U+1E59 U+1E58               U+1E5B U+1E5A               U+1E5D U+1E5C               U+1E5F U+1E5E               U+1E61 U+1E60               "
    \o "U+1E63 U+1E62               U+1E65 U+1E64               U+1E67 U+1E66               U+1E69 U+1E68               U+1E6B U+1E6A               U+1E6D U+1E6C               U+1E6F U+1E6E               U+1E71 U+1E70               U+1E73 U+1E72               U+1E75 U+1E74               U+1E77 U+1E76               U+1E79 U+1E78               U+1E7B U+1E7A               U+1E7D U+1E7C               U+1E7F U+1E7E               U+1E81 U+1E80               U+1E83 U+1E82               U+1E85 U+1E84               U+1E87 U+1E86               U+1E89 U+1E88               U+1E8B U+1E8A               U+1E8D U+1E8C               U+1E8F U+1E8E               U+1E91 U+1E90               U+1E93 U+1E92               U+1E95 U+1E94               U+1E96 H      U+0331        U+1E97 T      U+0308        U+1E98 W      U+030A        U+1E99 Y      U+030A        U+1E9A A      U+02BE        U+1E9B U+1E60               U+1EA1 U+1EA0               U+1EA3 U+1EA2               U+1EA5 U+1EA4               U+1EA7 U+1EA6               U+1EA9 U+1EA8               U+1EAB U+1EAA               U+1EAD U+1EAC               U+1EAF U+1EAE               U+1EB1 U+1EB0               U+1EB3 U+1EB2               U+1EB5 U+1EB4               U+1EB7 U+1EB6               U+1EB9 U+1EB8               U+1EBB U+1EBA               U+1EBD U+1EBC               U+1EBF U+1EBE               U+1EC1 U+1EC0               U+1EC3 U+1EC2               U+1EC5 U+1EC4               U+1EC7 U+1EC6               U+1EC9 U+1EC8               U+1ECB U+1ECA               U+1ECD U+1ECC               U+1ECF U+1ECE               U+1ED1 U+1ED0               U+1ED3 U+1ED2               U+1ED5 U+1ED4               U+1ED7 U+1ED6               U+1ED9 U+1ED8               U+1EDB U+1EDA               U+1EDD U+1EDC               U+1EDF U+1EDE               U+1EE1 U+1EE0               U+1EE3 U+1EE2               U+1EE5 U+1EE4               U+1EE7 U+1EE6               U+1EE9 U+1EE8               U+1EEB U+1EEA               U+1EED U+1EEC               U+1EEF U+1EEE               U+1EF1 U+1EF0               U+1EF3 U+1EF2               U+1EF5 U+1EF4               U+1EF7 U+1EF6               U+1EF9 U+1EF8               U+1EFB U+1EFA               U+1EFD U+1EFC               U+1EFF U+1EFE               U+1F00 U+1F08               U+1F01 U+1F09               U+1F02 U+1F0A               U+1F03 U+1F0B               U+1F04 U+1F0C               U+1F05 U+1F0D               U+1F06 U+1F0E               U+1F07 U+1F0F               U+1F10 U+1F18               U+1F11 U+1F19               U+1F12 U+1F1A               U+1F13 U+1F1B               U+1F14 U+1F1C               U+1F15 U+1F1D               U+1F20 U+1F28               U+1F21 U+1F29               U+1F22 U+1F2A               U+1F23 U+1F2B               U+1F24 U+1F2C               U+1F25 U+1F2D               U+1F26 U+1F2E               U+1F27 U+1F2F               U+1F30 U+1F38               U+1F31 U+1F39               U+1F32 U+1F3A               U+1F33 U+1F3B               U+1F34 U+1F3C               U+1F35 U+1F3D               U+1F36 U+1F3E               U+1F37 U+1F3F               U+1F40 U+1F48               U+1F41 U+1F49               U+1F42 U+1F4A               U+1F43 U+1F4B               U+1F44 U+1F4C               U+1F45 U+1F4D               U+1F50 U+03A5 U+0313        U+1F51 U+1F59               U+1F52 U+03A5 U+0313 U+0300 U+1F53 U+1F5B               U+1F54 U+03A5 U+0313 U+0301 U+1F55 U+1F5D               U+1F56 U+03A5 U+0313 U+0342 U+1F57 U+1F5F               U+1F60 U+1F68               U+1F61 U+1F69               U+1F62 U+1F6A               U+1F63 U+1F6B               U+1F64 U+1F6C               U+1F65 U+1F6D               U+1F66 U+1F6E               U+1F67 U+1F6F               U+1F70 U+1FBA               U+1F71 U+1FBB               U+1F72 U+1FC8               U+1F73 U+1FC9               U+1F74 U+1FCA               U+1F75 U+1FCB               U+1F76 U+1FDA               U+1F77 U+1FDB               U+1F78 U+1FF8               U+1F79 U+1FF9               "
    \o "U+1F7A U+1FEA               U+1F7B U+1FEB               U+1F7C U+1FFA               U+1F7D U+1FFB               U+1F80 U+1F88               U+1F81 U+1F89               U+1F82 U+1F8A               U+1F83 U+1F8B               U+1F84 U+1F8C               U+1F85 U+1F8D               U+1F86 U+1F8E               U+1F87 U+1F8F               U+1F90 U+1F98               U+1F91 U+1F99               U+1F92 U+1F9A               U+1F93 U+1F9B               U+1F94 U+1F9C               U+1F95 U+1F9D               U+1F96 U+1F9E               U+1F97 U+1F9F               U+1FA0 U+1FA8               U+1FA1 U+1FA9               U+1FA2 U+1FAA               U+1FA3 U+1FAB               U+1FA4 U+1FAC               U+1FA5 U+1FAD               U+1FA6 U+1FAE               U+1FA7 U+1FAF               U+1FB0 U+1FB8               U+1FB1 U+1FB9               U+1FB2 U+1FBA U+0345        U+1FB3 U+1FBC               U+1FB4 U+0386 U+0345        U+1FB6 U+0391 U+0342        U+1FB7 U+0391 U+0342 U+0345 U+1FBE U+0399               U+1FC2 U+1FCA U+0345        U+1FC3 U+1FCC               U+1FC4 U+0389 U+0345        U+1FC6 U+0397 U+0342        U+1FC7 U+0397 U+0342 U+0345 U+1FD0 U+1FD8               U+1FD1 U+1FD9               U+1FD2 U+0399 U+0308 U+0300 U+1FD3 U+0399 U+0308 U+0301 U+1FD6 U+0399 U+0342        U+1FD7 U+0399 U+0308 U+0342 U+1FE0 U+1FE8               U+1FE1 U+1FE9               U+1FE2 U+03A5 U+0308 U+0300 U+1FE3 U+03A5 U+0308 U+0301 U+1FE4 U+03A1 U+0313        U+1FE5 U+1FEC               U+1FE6 U+03A5 U+0342        U+1FE7 U+03A5 U+0308 U+0342 U+1FF2 U+1FFA U+0345        U+1FF3 U+1FFC               U+1FF4 U+038F U+0345        U+1FF6 U+03A9 U+0342        U+1FF7 U+03A9 U+0342 U+0345 U+214E U+2132               U+2170 U+2160               U+2171 U+2161               U+2172 U+2162               U+2173 U+2163               U+2174 U+2164               U+2175 U+2165               U+2176 U+2166               U+2177 U+2167               U+2178 U+2168               U+2179 U+2169               U+217A U+216A               U+217B U+216B               U+217C U+216C               U+217D U+216D               U+217E U+216E               U+217F U+216F               U+2184 U+2183               U+24D0 U+24B6               U+24D1 U+24B7               U+24D2 U+24B8               U+24D3 U+24B9               U+24D4 U+24BA               U+24D5 U+24BB               U+24D6 U+24BC               U+24D7 U+24BD               U+24D8 U+24BE               U+24D9 U+24BF               U+24DA U+24C0               U+24DB U+24C1               U+24DC U+24C2               U+24DD U+24C3               U+24DE U+24C4               U+24DF U+24C5               U+24E0 U+24C6               U+24E1 U+24C7               U+24E2 U+24C8               U+24E3 U+24C9               U+24E4 U+24CA               U+24E5 U+24CB               U+24E6 U+24CC               U+24E7 U+24CD               U+24E8 U+24CE               U+24E9 U+24CF               U+2C30 U+2C00               U+2C31 U+2C01               U+2C32 U+2C02               U+2C33 U+2C03               U+2C34 U+2C04               U+2C35 U+2C05               U+2C36 U+2C06               U+2C37 U+2C07               U+2C38 U+2C08               U+2C39 U+2C09               U+2C3A U+2C0A               U+2C3B U+2C0B               U+2C3C U+2C0C               U+2C3D U+2C0D               U+2C3E U+2C0E               U+2C3F U+2C0F               U+2C40 U+2C10               U+2C41 U+2C11               U+2C42 U+2C12               U+2C43 U+2C13               U+2C44 U+2C14               U+2C45 U+2C15               U+2C46 U+2C16               U+2C47 U+2C17               U+2C48 U+2C18               U+2C49 U+2C19               U+2C4A U+2C1A               U+2C4B U+2C1B               U+2C4C U+2C1C               U+2C4D U+2C1D               U+2C4E U+2C1E               U+2C4F U+2C1F               U+2C50 U+2C20               U+2C51 U+2C21               U+2C52 U+2C22               U+2C53 U+2C23               U+2C54 U+2C24               U+2C55 U+2C25               "
    \o "U+2C56 U+2C26               U+2C57 U+2C27               U+2C58 U+2C28               U+2C59 U+2C29               U+2C5A U+2C2A               U+2C5B U+2C2B               U+2C5C U+2C2C               U+2C5D U+2C2D               U+2C5E U+2C2E               U+2C5F U+2C2F               U+2C61 U+2C60               U+2C65 U+023A               U+2C66 U+023E               U+2C68 U+2C67               U+2C6A U+2C69               U+2C6C U+2C6B               U+2C73 U+2C72               U+2C76 U+2C75               U+2C81 U+2C80               U+2C83 U+2C82               U+2C85 U+2C84               U+2C87 U+2C86               U+2C89 U+2C88               U+2C8B U+2C8A               U+2C8D U+2C8C               U+2C8F U+2C8E               U+2C91 U+2C90               U+2C93 U+2C92               U+2C95 U+2C94               U+2C97 U+2C96               U+2C99 U+2C98               U+2C9B U+2C9A               U+2C9D U+2C9C               U+2C9F U+2C9E               U+2CA1 U+2CA0               U+2CA3 U+2CA2               U+2CA5 U+2CA4               U+2CA7 U+2CA6               U+2CA9 U+2CA8               U+2CAB U+2CAA               U+2CAD U+2CAC               U+2CAF U+2CAE               U+2CB1 U+2CB0               U+2CB3 U+2CB2               U+2CB5 U+2CB4               U+2CB7 U+2CB6               U+2CB9 U+2CB8               U+2CBB U+2CBA               U+2CBD U+2CBC               U+2CBF U+2CBE               U+2CC1 U+2CC0               U+2CC3 U+2CC2               U+2CC5 U+2CC4               U+2CC7 U+2CC6               U+2CC9 U+2CC8               U+2CCB U+2CCA               U+2CCD U+2CCC               U+2CCF U+2CCE               U+2CD1 U+2CD0               U+2CD3 U+2CD2               U+2CD5 U+2CD4               U+2CD7 U+2CD6               U+2CD9 U+2CD8               U+2CDB U+2CDA               U+2CDD U+2CDC               U+2CDF U+2CDE               U+2CE1 U+2CE0               U+2CE3 U+2CE2               U+2CEC U+2CEB               U+2CEE U+2CED               U+2CF3 U+2CF2               U+2D00 U+10A0               U+2D01 U+10A1               U+2D02 U+10A2               U+2D03 U+10A3               U+2D04 U+10A4               U+2D05 U+10A5               U+2D06 U+10A6               U+2D07 U+10A7               U+2D08 U+10A8               U+2D09 U+10A9               U+2D0A U+10AA               U+2D0B U+10AB               U+2D0C U+10AC               U+2D0D U+10AD               U+2D0E U+10AE               U+2D0F U+10AF               U+2D10 U+10B0               U+2D11 U+10B1               U+2D12 U+10B2               U+2D13 U+10B3               U+2D14 U+10B4               U+2D15 U+10B5               U+2D16 U+10B6               U+2D17 U+10B7               U+2D18 U+10B8               U+2D19 U+10B9               U+2D1A U+10BA               U+2D1B U+10BB               U+2D1C U+10BC               U+2D1D U+10BD               U+2D1E U+10BE               U+2D1F U+10BF               U+2D20 U+10C0               U+2D21 U+10C1               U+2D22 U+10C2               U+2D23 U+10C3               U+2D24 U+10C4               U+2D25 U+10C5               U+2D27 U+10C7               U+2D2D U+10CD               U+A641 U+A640               U+A643 U+A642               U+A645 U+A644               U+A647 U+A646               U+A649 U+A648               U+A64B U+A64A               U+A64D U+A64C               U+A64F U+A64E               U+A651 U+A650               U+A653 U+A652               U+A655 U+A654               U+A657 U+A656               U+A659 U+A658               U+A65B U+A65A               U+A65D U+A65C               U+A65F U+A65E               U+A661 U+A660               U+A663 U+A662               U+A665 U+A664               U+A667 U+A666               U+A669 U+A668               U+A66B U+A66A               U+A66D U+A66C               U+A681 U+A680               U+A683 U+A682               U+A685 U+A684               U+A687 U+A686               U+A689 U+A688               U+A68B U+A68A               U+A68D U+A68C               U+A68F U+A68E               "
    \o "U+A691 U+A690               U+A693 U+A692               U+A695 U+A694               U+A697 U+A696               U+A699 U+A698               U+A69B U+A69A               U+A723 U+A722               U+A725 U+A724               U+A727 U+A726               U+A729 U+A728               U+A72B U+A72A               U+A72D U+A72C               U+A72F U+A72E               U+A733 U+A732               U+A735 U+A734               U+A737 U+A736               U+A739 U+A738               U+A73B U+A73A               U+A73D U+A73C               U+A73F U+A73E               U+A741 U+A740               U+A743 U+A742               U+A745 U+A744               U+A747 U+A746               U+A749 U+A748               U+A74B U+A74A               U+A74D U+A74C               U+A74F U+A74E               U+A751 U+A750               U+A753 U+A752               U+A755 U+A754               U+A757 U+A756               U+A759 U+A758               U+A75B U+A75A               U+A75D U+A75C               U+A75F U+A75E               U+A761 U+A760               U+A763 U+A762               U+A765 U+A764               U+A767 U+A766               U+A769 U+A768               U+A76B U+A76A               U+A76D U+A76C               U+A76F U+A76E               U+A77A U+A779               U+A77C U+A77B               U+A77F U+A77E               U+A781 U+A780               U+A783 U+A782               U+A785 U+A784               U+A787 U+A786               U+A78C U+A78B               U+A791 U+A790               U+A793 U+A792               U+A794 U+A7C4               U+A797 U+A796               U+A799 U+A798               U+A79B U+A79A               U+A79D U+A79C               U+A79F U+A79E               U+A7A1 U+A7A0               U+A7A3 U+A7A2               U+A7A5 U+A7A4               U+A7A7 U+A7A6               U+A7A9 U+A7A8               U+A7B5 U+A7B4               U+A7B7 U+A7B6               U+A7B9 U+A7B8               U+A7BB U+A7BA               U+A7BD U+A7BC               U+A7BF U+A7BE               U+A7C1 U+A7C0               U+A7C3 U+A7C2               U+A7C8 U+A7C7               U+A7CA U+A7C9               U+A7D1 U+A7D0               U+A7D7 U+A7D6               U+A7D9 U+A7D8               U+A7F6 U+A7F5               U+AB53 U+A7B3               U+AB70 U+13A0               U+AB71 U+13A1               U+AB72 U+13A2               U+AB73 U+13A3               U+AB74 U+13A4               U+AB75 U+13A5               U+AB76 U+13A6               U+AB77 U+13A7               U+AB78 U+13A8               U+AB79 U+13A9               U+AB7A U+13AA               U+AB7B U+13AB               U+AB7C U+13AC               U+AB7D U+13AD               U+AB7E U+13AE               U+AB7F U+13AF               U+AB80 U+13B0               U+AB81 U+13B1               U+AB82 U+13B2               U+AB83 U+13B3               U+AB84 U+13B4               U+AB85 U+13B5               U+AB86 U+13B6               U+AB87 U+13B7               U+AB88 U+13B8               U+AB89 U+13B9               U+AB8A U+13BA               U+AB8B U+13BB               U+AB8C U+13BC               U+AB8D U+13BD               U+AB8E U+13BE               U+AB8F U+13BF               U+AB90 U+13C0               U+AB91 U+13C1               U+AB92 U+13C2               U+AB93 U+13C3               U+AB94 U+13C4               U+AB95 U+13C5               U+AB96 U+13C6               U+AB97 U+13C7               U+AB98 U+13C8               U+AB99 U+13C9               U+AB9A U+13CA               U+AB9B U+13CB               U+AB9C U+13CC               U+AB9D U+13CD               U+AB9E U+13CE               U+AB9F U+13CF               U+ABA0 U+13D0               U+ABA1 U+13D1               U+ABA2 U+13D2               U+ABA3 U+13D3               U+ABA4 U+13D4               U+ABA5 U+13D5               U+ABA6 U+13D6               U+ABA7 U+13D7               U+ABA8 U+13D8               U+ABA9 U+13D9               U+ABAA U+13DA               U+ABAB U+13DB               U+ABAC U+13DC               U+ABAD U+13DD               "
    \o "U+ABAE U+13DE               U+ABAF U+13DF               U+ABB0 U+13E0               U+ABB1 U+13E1               U+ABB2 U+13E2               U+ABB3 U+13E3               U+ABB4 U+13E4               U+ABB5 U+13E5               U+ABB6 U+13E6               U+ABB7 U+13E7               U+ABB8 U+13E8               U+ABB9 U+13E9               U+ABBA U+13EA               U+ABBB U+13EB               U+ABBC U+13EC               U+ABBD U+13ED               U+ABBE U+13EE               U+ABBF U+13EF               U+FB00 F      f             U+FB01 F      i             U+FB02 F      l             U+FB03 F      f      i      U+FB04 F      f      l      U+FB05 S      t             U+FB06 S      t             U+FB13 U+0544 U+0576        U+FB14 U+0544 U+0565        U+FB15 U+0544 U+056B        U+FB16 U+054E U+0576        U+FB17 U+0544 U+056D        U+FF41 U+FF21               U+FF42 U+FF22               U+FF43 U+FF23               U+FF44 U+FF24               U+FF45 U+FF25               U+FF46 U+FF26               U+FF47 U+FF27               U+FF48 U+FF28               U+FF49 U+FF29               U+FF4A U+FF2A               U+FF4B U+FF2B               U+FF4C U+FF2C               U+FF4D U+FF2D               U+FF4E U+FF2E               U+FF4F U+FF2F               U+FF50 U+FF30               U+FF51 U+FF31               U+FF52 U+FF32               U+FF53 U+FF33               U+FF54 U+FF34               U+FF55 U+FF35               U+FF56 U+FF36               U+FF57 U+FF37               U+FF58 U+FF38               U+FF59 U+FF39               U+FF5A U+FF3A               U+10428U+10400              U+10429U+10401              U+1042AU+10402              U+1042BU+10403              U+1042CU+10404              U+1042DU+10405              U+1042EU+10406              U+1042FU+10407              U+10430U+10408              U+10431U+10409              U+10432U+1040A              U+10433U+1040B              U+10434U+1040C              U+10435U+1040D              U+10436U+1040E              U+10437U+1040F              U+10438U+10410              U+10439U+10411              U+1043AU+10412              U+1043BU+10413              U+1043CU+10414              U+1043DU+10415              U+1043EU+10416              U+1043FU+10417              U+10440U+10418              U+10441U+10419              U+10442U+1041A              U+10443U+1041B              U+10444U+1041C              U+10445U+1041D              U+10446U+1041E              U+10447U+1041F              U+10448U+10420              U+10449U+10421              U+1044AU+10422              U+1044BU+10423              U+1044CU+10424              U+1044DU+10425              U+1044EU+10426              U+1044FU+10427              U+104D8U+104B0              U+104D9U+104B1              U+104DAU+104B2              U+104DBU+104B3              U+104DCU+104B4              U+104DDU+104B5              U+104DEU+104B6              U+104DFU+104B7              U+104E0U+104B8              U+104E1U+104B9              U+104E2U+104BA              U+104E3U+104BB              U+104E4U+104BC              U+104E5U+104BD              U+104E6U+104BE              U+104E7U+104BF              U+104E8U+104C0              U+104E9U+104C1              U+104EAU+104C2              U+104EBU+104C3              U+104ECU+104C4              U+104EDU+104C5              U+104EEU+104C6              U+104EFU+104C7              U+104F0U+104C8              U+104F1U+104C9              U+104F2U+104CA              U+104F3U+104CB              U+104F4U+104CC              U+104F5U+104CD              U+104F6U+104CE              U+104F7U+104CF              U+104F8U+104D0              U+104F9U+104D1              U+104FAU+104D2              U+104FBU+104D3              U+10597U+10570              U+10598U+10571              U+10599U+10572              U+1059AU+10573              U+1059BU+10574              U+1059CU+10575              U+1059DU+10576              U+1059EU+10577              U+1059FU+10578              U+105A0U+10579              "
    \o "U+105A1U+1057A              U+105A3U+1057C              U+105A4U+1057D              U+105A5U+1057E              U+105A6U+1057F              U+105A7U+10580              U+105A8U+10581              U+105A9U+10582              U+105AAU+10583              U+105ABU+10584              U+105ACU+10585              U+105ADU+10586              U+105AEU+10587              U+105AFU+10588              U+105B0U+10589              U+105B1U+1058A              U+105B3U+1058C              U+105B4U+1058D              U+105B5U+1058E              U+105B6U+1058F              U+105B7U+10590              U+105B8U+10591              U+105B9U+10592              U+105BBU+10594              U+105BCU+10595              U+10CC0U+10C80              U+10CC1U+10C81              U+10CC2U+10C82              U+10CC3U+10C83              U+10CC4U+10C84              U+10CC5U+10C85              U+10CC6U+10C86              U+10CC7U+10C87              U+10CC8U+10C88              U+10CC9U+10C89              U+10CCAU+10C8A              U+10CCBU+10C8B              U+10CCCU+10C8C              U+10CCDU+10C8D              U+10CCEU+10C8E              U+10CCFU+10C8F              U+10CD0U+10C90              U+10CD1U+10C91              U+10CD2U+10C92              U+10CD3U+10C93              U+10CD4U+10C94              U+10CD5U+10C95              U+10CD6U+10C96              U+10CD7U+10C97              U+10CD8U+10C98              U+10CD9U+10C99              U+10CDAU+10C9A              U+10CDBU+10C9B              U+10CDCU+10C9C              U+10CDDU+10C9D              U+10CDEU+10C9E              U+10CDFU+10C9F              U+10CE0U+10CA0              U+10CE1U+10CA1              U+10CE2U+10CA2              U+10CE3U+10CA3              U+10CE4U+10CA4              U+10CE5U+10CA5              U+10CE6U+10CA6              U+10CE7U+10CA7              U+10CE8U+10CA8              U+10CE9U+10CA9              U+10CEAU+10CAA              U+10CEBU+10CAB              U+10CECU+10CAC              U+10CEDU+10CAD              U+10CEEU+10CAE              U+10CEFU+10CAF              U+10CF0U+10CB0              U+10CF1U+10CB1              U+10CF2U+10CB2              U+118C0U+118A0              U+118C1U+118A1              U+118C2U+118A2              U+118C3U+118A3              U+118C4U+118A4              U+118C5U+118A5              U+118C6U+118A6              U+118C7U+118A7              U+118C8U+118A8              U+118C9U+118A9              U+118CAU+118AA              U+118CBU+118AB              U+118CCU+118AC              U+118CDU+118AD              U+118CEU+118AE              U+118CFU+118AF              U+118D0U+118B0              U+118D1U+118B1              U+118D2U+118B2              U+118D3U+118B3              U+118D4U+118B4              U+118D5U+118B5              U+118D6U+118B6              U+118D7U+118B7              U+118D8U+118B8              U+118D9U+118B9              U+118DAU+118BA              U+118DBU+118BB              U+118DCU+118BC              U+118DDU+118BD              U+118DEU+118BE              U+118DFU+118BF              U+16E60U+16E40              U+16E61U+16E41              U+16E62U+16E42              U+16E63U+16E43              U+16E64U+16E44              U+16E65U+16E45              U+16E66U+16E46              U+16E67U+16E47              U+16E68U+16E48              U+16E69U+16E49              U+16E6AU+16E4A              U+16E6BU+16E4B              U+16E6CU+16E4C              U+16E6DU+16E4D              U+16E6EU+16E4E              U+16E6FU+16E4F              U+16E70U+16E50              U+16E71U+16E51              U+16E72U+16E52              U+16E73U+16E53              U+16E74U+16E54              U+16E75U+16E55              U+16E76U+16E56              U+16E77U+16E57              U+16E78U+16E58              U+16E79U+16E59              U+16E7AU+16E5A              U+16E7BU+16E5B              U+16E7CU+16E5C              U+16E7DU+16E5D              U+16E7EU+16E5E              U+16E7FU+16E5F              U+1E922U+1E900              U+1E923U+1E901              "
    \o "U+1E924U+1E902              U+1E925U+1E903              U+1E926U+1E904              U+1E927U+1E905              U+1E928U+1E906              U+1E929U+1E907              U+1E92AU+1E908              U+1E92BU+1E909              U+1E92CU+1E90A              U+1E92DU+1E90B              U+1E92EU+1E90C              U+1E92FU+1E90D              U+1E930U+1E90E              U+1E931U+1E90F              U+1E932U+1E910              U+1E933U+1E911              U+1E934U+1E912              U+1E935U+1E913              U+1E936U+1E914              U+1E937U+1E915              U+1E938U+1E916              U+1E939U+1E917              U+1E93AU+1E918              U+1E93BU+1E919              U+1E93CU+1E91A              U+1E93DU+1E91B              U+1E93EU+1E91C              U+1E93FU+1E91D              U+1E940U+1E91E              U+1E941U+1E91F              U+1E942U+1E920              U+1E943U+1E921              "

\* html._invalid_charrefs: the number of a reference and its replacement
InvalidCharrefs ==
    {<<0, "U+FFFD">>, <<13, "U+000D">>, <<128, "U+20AC">>, <<129, "U+0081">>,
     <<130, "U+201A">>, <<131, "U+0192">>, <<132, "U+201E">>, <<133, "U+2026">>,
     <<134, "U+2020">>, <<135, "U+2021">>, <<136, "U+02C6">>, <<137, "U+2030">>,
     <<138, "U+0160">>, <<139, "U+2039">>, <<140, "U+0152">>, <<141, "U+008D">>,
     <<142, "U+017D">>, <<143, "U+008F">>, <<144, "U+0090">>, <<145, "U+2018">>,
     <<146, "U+2019">>, <<147, "U+201C">>, <<148, "U+201D">>, <<149, "U+2022">>,
     <<150, "U+2013">>, <<151, "U+2014">>, <<152, "U+02DC">>, <<153, "U+2122">>,
     <<154, "U+0161">>, <<155, "U+203A">>, <<156, "U+0153">>, <<157, "U+009D">>,
     <<158, "U+017E">>, <<159, "U+0178">>}

\* html.entities.html5: the name, with the semicolon where one is written,
\* and the text (a key of 32 places and 2 fields of 7 places for the
\* characters of the text)
Html5Data ==
    "AElig                           U+00C6        AElig;                          U+00C6        AMP                             &             AMP;                            &             Aacute                          U+00C1        Aacute;                         U+00C1        Abreve;                         U+0102        Acirc                           U+00C2        Acirc;                          U+00C2        Acy;                            U+0410        Afr;                            U+1D504       Agrave                          U+00C0        Agrave;                         U+00C0        Alpha;                          U+0391        Amacr;                          U+0100        And;                            U+2A53        Aogon;                          U+0104        Aopf;                           U+1D538       ApplyFunction;                  U+2061        Aring                           U+00C5        Aring;                          U+00C5        Ascr;                           U+1D49C       Assign;                         U+2254        Atilde                          U+00C3        Atilde;                         U+00C3        Auml                            U+00C4        Auml;                           U+00C4        Backslash;                      U+2216        Barv;                           U+2AE7        Barwed;                         U+2306        Bcy;                            U+0411        Because;                        U+2235        Bernoullis;                     U+212C        Beta;                           U+0392        Bfr;                            U+1D505       Bopf;                           U+1D539       Breve;                          U+02D8        Bscr;                           U+212C        Bumpeq;                         U+224E        CHcy;                           U+0427        COPY                            U+00A9        COPY;                           U+00A9        Cacute;                         U+0106        Cap;                            U+22D2        CapitalDifferentialD;           U+2145        Cayleys;                        U+212D        Ccaron;                         U+010C        Ccedil                          U+00C7        Ccedil;                         U+00C7        Ccirc;                          U+0108        Cconint;                        U+2230        Cdot;                           U+010A        Cedilla;                        U+00B8        CenterDot;                      U+00B7        Cfr;                            U+212D        Chi;                            U+03A7        CircleDot;                      U+2299        CircleMinus;                    U+2296        CirclePlus;                     U+2295        CircleTimes;                    U+2297        ClockwiseContourIntegral;       U+2232        CloseCurlyDoubleQuote;          U+201D        CloseCurlyQuote;                U+2019        Colon;                          U+2237        Colone;                         U+2A74        Congruent;                      U+2261        Conint;                         U+222F        ContourIntegral;                U+222E        Copf;                           U+2102        Coproduct;                      U+2210        CounterClockwiseContourIntegral;U+2233        Cross;                          U+2A2F        Cscr;                           U+1D49E       Cup;                            U+22D3        CupCap;                         U+224D        DD;                             U+2145        DDotrahd;                       U+2911        DJcy;                           U+0402        DScy;                           U+0405        DZcy;                           U+040F        Dagger;                         U+2021        Darr;                           U+21A1        Dashv;                          U+2AE4        Dcaron;                         U+010E        Dcy;                            U+0414        Del;                            U+2207        "
    \o "Delta;                          U+0394        Dfr;                            U+1D507       DiacriticalAcute;               U+00B4        DiacriticalDot;                 U+02D9        DiacriticalDoubleAcute;         U+02DD        DiacriticalGrave;               U+0060        DiacriticalTilde;               U+02DC        Diamond;                        U+22C4        DifferentialD;                  U+2146        Dopf;                           U+1D53B       Dot;                            U+00A8        DotDot;                         U+20DC        DotEqual;                       U+2250        DoubleContourIntegral;          U+222F        DoubleDot;                      U+00A8        DoubleDownArrow;                U+21D3        DoubleLeftArrow;                U+21D0        DoubleLeftRightArrow;           U+21D4        DoubleLeftTee;                  U+2AE4        DoubleLongLeftArrow;            U+27F8        DoubleLongLeftRightArrow;       U+27FA        DoubleLongRightArrow;           U+27F9        DoubleRightArrow;               U+21D2        DoubleRightTee;                 U+22A8        DoubleUpArrow;                  U+21D1        DoubleUpDownArrow;              U+21D5        DoubleVerticalBar;              U+2225        DownArrow;                      U+2193        DownArrowBar;                   U+2913        DownArrowUpArrow;               U+21F5        DownBreve;                      U+0311        DownLeftRightVector;            U+2950        DownLeftTeeVector;              U+295E        DownLeftVector;                 U+21BD        DownLeftVectorBar;              U+2956        DownRightTeeVector;             U+295F        DownRightVector;                U+21C1        DownRightVectorBar;             U+2957        DownTee;                        U+22A4        DownTeeArrow;                   U+21A7        Downarrow;                      U+21D3        Dscr;                           U+1D49F       Dstrok;                         U+0110        ENG;                            U+014A        ETH                             U+00D0        ETH;                            U+00D0        Eacute                          U+00C9        Eacute;                         U+00C9        Ecaron;                         U+011A        Ecirc                           U+00CA        Ecirc;                          U+00CA        Ecy;                            U+042D        Edot;                           U+0116        Efr;                            U+1D508       Egrave                          U+00C8        Egrave;                         U+00C8        Element;                        U+2208        Emacr;                          U+0112        EmptySmallSquare;               U+25FB        EmptyVerySmallSquare;           U+25AB        Eogon;                          U+0118        Eopf;                           U+1D53C       Epsilon;                        U+0395        Equal;                          U+2A75        EqualTilde;                     U+2242        Equilibrium;                    U+21CC        Escr;                           U+2130        Esim;                           U+2A73        Eta;                            U+0397        Euml                            U+00CB        Euml;                           U+00CB        Exists;                         U+2203        ExponentialE;                   U+2147        Fcy;                            U+0424        Ffr;                            U+1D509       FilledSmallSquare;              U+25FC        FilledVerySmallSquare;          U+25AA        Fopf;                           U+1D53D       ForAll;                         U+2200        Fouriertrf;                     U+2131        Fscr;                           U+2131        GJcy;                           U+0403        GT                              >             GT;                             >             Gamma;                          U+0393        Gammad;                         U+03DC        "
    \o "Gbreve;                         U+011E        Gcedil;                         U+0122        Gcirc;                          U+011C        Gcy;                            U+0413        Gdot;                           U+0120        Gfr;                            U+1D50A       Gg;                             U+22D9        Gopf;                           U+1D53E       GreaterEqual;                   U+2265        GreaterEqualLess;               U+22DB        GreaterFullEqual;               U+2267        GreaterGreater;                 U+2AA2        GreaterLess;                    U+2277        GreaterSlantEqual;              U+2A7E        GreaterTilde;                   U+2273        Gscr;                           U+1D4A2       Gt;                             U+226B        HARDcy;                         U+042A        Hacek;                          U+02C7        Hat;                            ^             Hcirc;                          U+0124        Hfr;                            U+210C        HilbertSpace;                   U+210B        Hopf;                           U+210D        HorizontalLine;                 U+2500        Hscr;                           U+210B        Hstrok;                         U+0126        HumpDownHump;                   U+224E        HumpEqual;                      U+224F        IEcy;                           U+0415        IJlig;                          U+0132        IOcy;                           U+0401        Iacute                          U+00CD        Iacute;                         U+00CD        Icirc                           U+00CE        Icirc;                          U+00CE        Icy;                            U+0418        Idot;                           U+0130        Ifr;                            U+2111        Igrave                          U+00CC        Igrave;                         U+00CC        Im;                             U+2111        Imacr;                          U+012A        ImaginaryI;                     U+2148        Implies;                        U+21D2        Int;                            U+222C        Integral;                       U+222B        Intersection;                   U+22C2        InvisibleComma;                 U+2063        InvisibleTimes;                 U+2062        Iogon;                          U+012E        Iopf;                           U+1D540       Iota;                           U+0399        Iscr;                           U+2110        Itilde;                         U+0128        Iukcy;                          U+0406        Iuml                            U+00CF        Iuml;                           U+00CF        Jcirc;                          U+0134        Jcy;                            U+0419        Jfr;                            U+1D50D       Jopf;                           U+1D541       Jscr;                           U+1D4A5       Jsercy;                         U+0408        Jukcy;                          U+0404        KHcy;                           U+0425        KJcy;                           U+040C        Kappa;                          U+039A        Kcedil;                         U+0136        Kcy;                            U+041A        Kfr;                            U+1D50E       Kopf;                           U+1D542       Kscr;                           U+1D4A6       LJcy;                           U+0409        LT                              <             LT;                             <             Lacute;                         U+0139        Lambda;                         U+039B        Lang;                           U+27EA        Laplacetrf;                     U+2112        Larr;                           U+219E        Lcaron;                         U+013D        Lcedil;                         U+013B        Lcy;                            U+041B        LeftAngleBracket;               U+27E8        LeftArrow;                      U+2190        "
    \o "LeftArrowBar;                   U+21E4        LeftArrowRightArrow;            U+21C6        LeftCeiling;                    U+2308        LeftDoubleBracket;              U+27E6        LeftDownTeeVector;              U+2961        LeftDownVector;                 U+21C3        LeftDownVectorBar;              U+2959        LeftFloor;                      U+230A        LeftRightArrow;                 U+2194        LeftRightVector;                U+294E        LeftTee;                        U+22A3        LeftTeeArrow;                   U+21A4        LeftTeeVector;                  U+295A        LeftTriangle;                   U+22B2        LeftTriangleBar;                U+29CF        LeftTriangleEqual;              U+22B4        LeftUpDownVector;               U+2951        LeftUpTeeVector;                U+2960        LeftUpVector;                   U+21BF        LeftUpVectorBar;                U+2958        LeftVector;                     U+21BC        LeftVectorBar;                  U+2952        Leftarrow;                      U+21D0        Leftrightarrow;                 U+21D4        LessEqualGreater;               U+22DA        LessFullEqual;                  U+2266        LessGreater;                    U+2276        LessLess;                       U+2AA1        LessSlantEqual;                 U+2A7D        LessTilde;                      U+2272        Lfr;                            U+1D50F       Ll;                             U+22D8        Lleftarrow;                     U+21DA        Lmidot;                         U+013F        LongLeftArrow;                  U+27F5        LongLeftRightArrow;             U+27F7        LongRightArrow;                 U+27F6        Longleftarrow;                  U+27F8        Longleftrightarrow;             U+27FA        Longrightarrow;                 U+27F9        Lopf;                           U+1D543       LowerLeftArrow;                 U+2199        LowerRightArrow;                U+2198        Lscr;                           U+2112        Lsh;                            U+21B0        Lstrok;                         U+0141        Lt;                             U+226A        Map;                            U+2905        Mcy;                            U+041C        MediumSpace;                    U+205F        Mellintrf;                      U+2133        Mfr;                            U+1D510       MinusPlus;                      U+2213        Mopf;                           U+1D544       Mscr;                           U+2133        Mu;                             U+039C        NJcy;                           U+040A        Nacute;                         U+0143        Ncaron;                         U+0147        Ncedil;                         U+0145        Ncy;                            U+041D        NegativeMediumSpace;            U+200B        NegativeThickSpace;             U+200B        NegativeThinSpace;              U+200B        NegativeVeryThinSpace;          U+200B        NestedGreaterGreater;           U+226B        NestedLessLess;                 U+226A        NewLine;                        U+000A        Nfr;                            U+1D511       NoBreak;                        U+2060        NonBreakingSpace;               U+00A0        Nopf;                           U+2115        Not;                            U+2AEC        NotCongruent;                   U+2262        NotCupCap;                      U+226D        NotDoubleVerticalBar;           U+2226        NotElement;                     U+2209        NotEqual;                       U+2260        NotEqualTilde;                  U+2242 U+0338 NotExists;                      U+2204        NotGreater;                     U+226F        NotGreaterEqual;                U+2271        NotGreaterFullEqual;            U+2267 U+0338 NotGreaterGreater;              U+226B U+0338 NotGreaterLess;                 U+2279        NotGreaterSlantEqual;           U+2A7E U+0338 "
    \o "NotGreaterTilde;                U+2275        NotHumpDownHump;                U+224E U+0338 NotHumpEqual;                   U+224F U+0338 NotLeftTriangle;                U+22EA        NotLeftTriangleBar;             U+29CF U+0338 NotLeftTriangleEqual;           U+22EC        NotLess;                        U+226E        NotLessEqual;                   U+2270        NotLessGreater;                 U+2278        NotLessLess;                    U+226A U+0338 NotLessSlantEqual;              U+2A7D U+0338 NotLessTilde;                   U+2274        NotNestedGreaterGreater;        U+2AA2 U+0338 NotNestedLessLess;              U+2AA1 U+0338 NotPrecedes;                    U+2280        NotPrecedesEqual;               U+2AAF U+0338 NotPrecedesSlantEqual;          U+22E0        NotReverseElement;              U+220C        NotRightTriangle;               U+22EB        NotRightTriangleBar;            U+29D0 U+0338 NotRightTriangleEqual;          U+22ED        NotSquareSubset;                U+228F U+0338 NotSquareSubsetEqual;           U+22E2        NotSquareSuperset;              U+2290 U+0338 NotSquareSupersetEqual;         U+22E3        NotSubset;                      U+2282 U+20D2 NotSubsetEqual;                 U+2288        NotSucceeds;                    U+2281        NotSucceedsEqual;               U+2AB0 U+0338 NotSucceedsSlantEqual;          U+22E1        NotSucceedsTilde;               U+227F U+0338 NotSuperset;                    U+2283 U+20D2 NotSupersetEqual;               U+2289        NotTilde;                       U+2241        NotTildeEqual;                  U+2244        NotTildeFullEqual;              U+2247        NotTildeTilde;                  U+2249        NotVerticalBar;                 U+2224        Nscr;                           U+1D4A9       Ntilde                          U+00D1        Ntilde;                         U+00D1        Nu;                             U+039D        OElig;                          U+0152        Oacute                          U+00D3        Oacute;                         U+00D3        Ocirc                           U+00D4        Ocirc;                          U+00D4        Ocy;                            U+041E        Odblac;                         U+0150        Ofr;                            U+1D512       Ograve                          U+00D2        Ograve;                         U+00D2        Omacr;                          U+014C        Omega;                          U+03A9        Omicron;                        U+039F        Oopf;                           U+1D546       OpenCurlyDoubleQuote;           U+201C        OpenCurlyQuote;                 U+2018        Or;                             U+2A54        Oscr;                           U+1D4AA       Oslash                          U+00D8        Oslash;                         U+00D8        Otilde                          U+00D5        Otilde;                         U+00D5        Otimes;                         U+2A37        Ouml                            U+00D6        Ouml;                           U+00D6        OverBar;                        U+203E        OverBrace;                      U+23DE        OverBracket;                    U+23B4        OverParenthesis;                U+23DC        PartialD;                       U+2202        Pcy;                            U+041F        Pfr;                            U+1D513       Phi;                            U+03A6        Pi;                             U+03A0        PlusMinus;                      U+00B1        Poincareplane;                  U+210C        Popf;                           U+2119        Pr;                             U+2ABB        Precedes;                       U+227A        PrecedesEqual;                  U+2AAF        PrecedesSlantEqual;             U+227C        PrecedesTilde;                  U+227E        Prime;                          U+2033        Product;                        U+220F        "
    \o "Proportion;                     U+2237        Proportional;                   U+221D        Pscr;                           U+1D4AB       Psi;                            U+03A8        QUOT                            \"             QUOT;                           \"             Qfr;                            U+1D514       Qopf;                           U+211A        Qscr;                           U+1D4AC       RBarr;                          U+2910        REG                             U+00AE        REG;                            U+00AE        Racute;                         U+0154        Rang;                           U+27EB        Rarr;                           U+21A0        Rarrtl;                         U+2916        Rcaron;                         U+0158        Rcedil;                         U+0156        Rcy;                            U+0420        Re;                             U+211C        ReverseElement;                 U+220B        ReverseEquilibrium;             U+21CB        ReverseUpEquilibrium;           U+296F        Rfr;                            U+211C        Rho;                            U+03A1        RightAngleBracket;              U+27E9        RightArrow;                     U+2192        RightArrowBar;                  U+21E5        RightArrowLeftArrow;            U+21C4        RightCeiling;                   U+2309        RightDoubleBracket;             U+27E7        RightDownTeeVector;             U+295D        RightDownVector;                U+21C2        RightDownVectorBar;             U+2955        RightFloor;                     U+230B        RightTee;                       U+22A2        RightTeeArrow;                  U+21A6        RightTeeVector;                 U+295B        RightTriangle;                  U+22B3        RightTriangleBar;               U+29D0        RightTriangleEqual;             U+22B5        RightUpDownVector;              U+294F        RightUpTeeVector;               U+295C        RightUpVector;                  U+21BE        RightUpVectorBar;               U+2954        RightVector;                    U+21C0        RightVectorBar;                 U+2953        Rightarrow;                     U+21D2        Ropf;                           U+211D        RoundImplies;                   U+2970        Rrightarrow;                    U+21DB        Rscr;                           U+211B        Rsh;                            U+21B1        RuleDelayed;                    U+29F4        SHCHcy;                         U+0429        SHcy;                           U+0428        SOFTcy;                         U+042C        Sacute;                         U+015A        Sc;                             U+2ABC        Scaron;                         U+0160        Scedil;                         U+015E        Scirc;                          U+015C        Scy;                            U+0421        Sfr;                            U+1D516       ShortDownArrow;                 U+2193        ShortLeftArrow;                 U+2190        ShortRightArrow;                U+2192        ShortUpArrow;                   U+2191        Sigma;                          U+03A3        SmallCircle;                    U+2218        Sopf;                           U+1D54A       Sqrt;                           U+221A        Square;                         U+25A1        SquareIntersection;             U+2293        SquareSubset;                   U+228F        SquareSubsetEqual;              U+2291        SquareSuperset;                 U+2290        SquareSupersetEqual;            U+2292        SquareUnion;                    U+2294        Sscr;                           U+1D4AE       Star;                           U+22C6        Sub;                            U+22D0        Subset;                         U+22D0        SubsetEqual;                    U+2286        Succeeds;                       U+227B        SucceedsEqual;                  U+2AB0        "
    \o "SucceedsSlantEqual;             U+227D        SucceedsTilde;                  U+227F        SuchThat;                       U+220B        Sum;                            U+2211        Sup;                            U+22D1        Superset;                       U+2283        SupersetEqual;                  U+2287        Supset;                         U+22D1        THORN                           U+00DE        THORN;                          U+00DE        TRADE;                          U+2122        TSHcy;                          U+040B        TScy;                           U+0426        Tab;                            U+0009        Tau;                            U+03A4        Tcaron;                         U+0164        Tcedil;                         U+0162        Tcy;                            U+0422        Tfr;                            U+1D517       Therefore;                      U+2234        Theta;                          U+0398        ThickSpace;                     U+205F U+200A ThinSpace;                      U+2009        Tilde;                          U+223C        TildeEqual;                     U+2243        TildeFullEqual;                 U+2245        TildeTilde;                     U+2248        Topf;                           U+1D54B       TripleDot;                      U+20DB        Tscr;                           U+1D4AF       Tstrok;                         U+0166        Uacute                          U+00DA        Uacute;                         U+00DA        Uarr;                           U+219F        Uarrocir;                       U+2949        Ubrcy;                          U+040E        Ubreve;                         U+016C        Ucirc                           U+00DB        Ucirc;                          U+00DB        Ucy;                            U+0423        Udblac;                         U+0170        Ufr;                            U+1D518       Ugrave                          U+00D9        Ugrave;                         U+00D9        Umacr;                          U+016A        UnderBar;                       _             UnderBrace;                     U+23DF        UnderBracket;                   U+23B5        UnderParenthesis;               U+23DD        Union;                          U+22C3        UnionPlus;                      U+228E        Uogon;                          U+0172        Uopf;                           U+1D54C       UpArrow;                        U+2191        UpArrowBar;                     U+2912        UpArrowDownArrow;               U+21C5        UpDownArrow;                    U+2195        UpEquilibrium;                  U+296E        UpTee;                          U+22A5        UpTeeArrow;                     U+21A5        Uparrow;                        U+21D1        Updownarrow;                    U+21D5        UpperLeftArrow;                 U+2196        UpperRightArrow;                U+2197        Upsi;                           U+03D2        Upsilon;                        U+03A5        Uring;                          U+016E        Uscr;                           U+1D4B0       Utilde;                         U+0168        Uuml                            U+00DC        Uuml;                           U+00DC        VDash;                          U+22AB        Vbar;                           U+2AEB        Vcy;                            U+0412        Vdash;                          U+22A9        Vdashl;                         U+2AE6        Vee;                            U+22C1        Verbar;                         U+2016        Vert;                           U+2016        VerticalBar;                    U+2223        VerticalLine;                   |             VerticalSeparator;              U+2758        VerticalTilde;                  U+2240        VeryThinSpace;                  U+200A        Vfr;                            U+1D519       Vopf;                           U+1D54D       "
    \o "Vscr;                           U+1D4B1       Vvdash;                         U+22AA        Wcirc;                          U+0174        Wedge;                          U+22C0        Wfr;                            U+1D51A       Wopf;                           U+1D54E       Wscr;                           U+1D4B2       Xfr;                            U+1D51B       Xi;                             U+039E        Xopf;                           U+1D54F       Xscr;                           U+1D4B3       YAcy;                           U+042F        YIcy;                           U+0407        YUcy;                           U+042E        Yacute                          U+00DD        Yacute;                         U+00DD        Ycirc;                          U+0176        Ycy;                            U+042B        Yfr;                            U+1D51C       Yopf;                           U+1D550       Yscr;                           U+1D4B4       Yuml;                           U+0178        ZHcy;                           U+0416        Zacute;                         U+0179        Zcaron;                         U+017D        Zcy;                            U+0417        Zdot;                           U+017B        ZeroWidthSpace;                 U+200B        Zeta;                           U+0396        Zfr;                            U+2128        Zopf;                           U+2124        Zscr;                           U+1D4B5       aacute                          U+00E1        aacute;                         U+00E1        abreve;                         U+0103        ac;                             U+223E        acE;                            U+223E U+0333 acd;                            U+223F        acirc                           U+00E2        acirc;                          U+00E2        acute                           U+00B4        acute;                          U+00B4        acy;                            U+0430        aelig                           U+00E6        aelig;                          U+00E6        af;                             U+2061        afr;                            U+1D51E       agrave                          U+00E0        agrave;                         U+00E0        alefsym;                        U+2135        aleph;                          U+2135        alpha;                          U+03B1        amacr;                          U+0101        amalg;                          U+2A3F        amp                             &             amp;                            &             and;                            U+2227        andand;                         U+2A55        andd;                           U+2A5C        andslope;                       U+2A58        andv;                           U+2A5A        ang;                            U+2220        ange;                           U+29A4        angle;                          U+2220        angmsd;                         U+2221        angmsdaa;                       U+29A8        angmsdab;                       U+29A9        angmsdac;                       U+29AA        angmsdad;                       U+29AB        angmsdae;                       U+29AC        angmsdaf;                       U+29AD        angmsdag;                       U+29AE        angmsdah;                       U+29AF        angrt;                          U+221F        angrtvb;                        U+22BE        angrtvbd;                       U+299D        angsph;                         U+2222        angst;                          U+00C5        angzarr;                        U+237C        aogon;                          U+0105        aopf;                           U+1D552       ap;                             U+2248        apE;                            U+2A70        apacir;                         U+2A6F        ape;                            U+224A        apid;                           U+224B        "
    \o "apos;                           '             approx;                         U+2248        approxeq;                       U+224A        aring                           U+00E5        aring;                          U+00E5        ascr;                           U+1D4B6       ast;                            *             asymp;                          U+2248        asympeq;                        U+224D        atilde                          U+00E3        atilde;                         U+00E3        auml                            U+00E4        auml;                           U+00E4        awconint;                       U+2233        awint;                          U+2A11        bNot;                           U+2AED        backcong;                       U+224C        backepsilon;                    U+03F6        backprime;                      U+2035        backsim;                        U+223D        backsimeq;                      U+22CD        barvee;                         U+22BD        barwed;                         U+2305        barwedge;                       U+2305        bbrk;                           U+23B5        bbrktbrk;                       U+23B6        bcong;                          U+224C        bcy;                            U+0431        bdquo;                          U+201E        becaus;                         U+2235        because;                        U+2235        bemptyv;                        U+29B0        bepsi;                          U+03F6        bernou;                         U+212C        beta;                           U+03B2        beth;                           U+2136        between;                        U+226C        bfr;                            U+1D51F       bigcap;                         U+22C2        bigcirc;                        U+25EF        bigcup;                         U+22C3        bigodot;                        U+2A00        bigoplus;                       U+2A01        bigotimes;                      U+2A02        bigsqcup;                       U+2A06        bigstar;                        U+2605        bigtriangledown;                U+25BD        bigtriangleup;                  U+25B3        biguplus;                       U+2A04        bigvee;                         U+22C1        bigwedge;                       U+22C0        bkarow;                         U+290D        blacklozenge;                   U+29EB        blacksquare;                    U+25AA        blacktriangle;                  U+25B4        blacktriangledown;              U+25BE        blacktriangleleft;              U+25C2        blacktriangleright;             U+25B8        blank;                          U+2423        blk12;                          U+2592        blk14;                          U+2591        blk34;                          U+2593        block;                          U+2588        bne;                            =      U+20E5 bnequiv;                        U+2261 U+20E5 bnot;                           U+2310        bopf;                           U+1D553       bot;                            U+22A5        bottom;                         U+22A5        bowtie;                         U+22C8        boxDL;                          U+2557        boxDR;                          U+2554        boxDl;                          U+2556        boxDr;                          U+2553        boxH;                           U+2550        boxHD;                          U+2566        boxHU;                          U+2569        boxHd;                          U+2564        boxHu;                          U+2567        boxUL;                          U+255D        boxUR;                          U+255A        boxUl;                          U+255C        boxUr;                          U+2559        boxV;                           U+2551        boxVH;                          U+256C        boxVL;                          U+2563        "
    \o "boxVR;                          U+2560        boxVh;                          U+256B        boxVl;                          U+2562        boxVr;                          U+255F        boxbox;                         U+29C9        boxdL;                          U+2555        boxdR;                          U+2552        boxdl;                          U+2510        boxdr;                          U+250C        boxh;                           U+2500        boxhD;                          U+2565        boxhU;                          U+2568        boxhd;                          U+252C        boxhu;                          U+2534        boxminus;                       U+229F        boxplus;                        U+229E        boxtimes;                       U+22A0        boxuL;                          U+255B        boxuR;                          U+2558        boxul;                          U+2518        boxur;                          U+2514        boxv;                           U+2502        boxvH;                          U+256A        boxvL;                          U+2561        boxvR;                          U+255E        boxvh;                          U+253C        boxvl;                          U+2524        boxvr;                          U+251C        bprime;                         U+2035        breve;                          U+02D8        brvbar                          U+00A6        brvbar;                         U+00A6        bscr;                           U+1D4B7       bsemi;                          U+204F        bsim;                           U+223D        bsime;                          U+22CD        bsol;                           \\             bsolb;                          U+29C5        bsolhsub;                       U+27C8        bull;                           U+2022        bullet;                         U+2022        bump;                           U+224E        bumpE;                          U+2AAE        bumpe;                          U+224F        bumpeq;                         U+224F        cacute;                         U+0107        cap;                            U+2229        capand;                         U+2A44        capbrcup;                       U+2A49        capcap;                         U+2A4B        capcup;                         U+2A47        capdot;                         U+2A40        caps;                           U+2229 U+FE00 caret;                          U+2041        caron;                          U+02C7        ccaps;                          U+2A4D        ccaron;                         U+010D        ccedil                          U+00E7        ccedil;                         U+00E7        ccirc;                          U+0109        ccups;                          U+2A4C        ccupssm;                        U+2A50        cdot;                           U+010B        cedil                           U+00B8        cedil;                          U+00B8        cemptyv;                        U+29B2        cent                            U+00A2        cent;                           U+00A2        centerdot;                      U+00B7        cfr;                            U+1D520       chcy;                           U+0447        check;                          U+2713        checkmark;                      U+2713        chi;                            U+03C7        cir;                            U+25CB        cirE;                           U+29C3        circ;                           U+02C6        circeq;                         U+2257        circlearrowleft;                U+21BA        circlearrowright;               U+21BB        circledR;                       U+00AE        circledS;                       U+24C8        circledast;                     U+229B        circledcirc;                    U+229A        circleddash;                    U+229D        cire;                           U+2257        "
    \o "cirfnint;                       U+2A10        cirmid;                         U+2AEF        cirscir;                        U+29C2        clubs;                          U+2663        clubsuit;                       U+2663        colon;                          :             colone;                         U+2254        coloneq;                        U+2254        comma;                          ,             commat;                         @             comp;                           U+2201        compfn;                         U+2218        complement;                     U+2201        complexes;                      U+2102        cong;                           U+2245        congdot;                        U+2A6D        conint;                         U+222E        copf;                           U+1D554       coprod;                         U+2210        copy                            U+00A9        copy;                           U+00A9        copysr;                         U+2117        crarr;                          U+21B5        cross;                          U+2717        cscr;                           U+1D4B8       csub;                           U+2ACF        csube;                          U+2AD1        csup;                           U+2AD0        csupe;                          U+2AD2        ctdot;                          U+22EF        cudarrl;                        U+2938        cudarrr;                        U+2935        cuepr;                          U+22DE        cuesc;                          U+22DF        cularr;                         U+21B6        cularrp;                        U+293D        cup;                            U+222A        cupbrcap;                       U+2A48        cupcap;                         U+2A46        cupcup;                         U+2A4A        cupdot;                         U+228D        cupor;                          U+2A45        cups;                           U+222A U+FE00 curarr;                         U+21B7        curarrm;                        U+293C        curlyeqprec;                    U+22DE        curlyeqsucc;                    U+22DF        curlyvee;                       U+22CE        curlywedge;                     U+22CF        curren                          U+00A4        curren;                         U+00A4        curvearrowleft;                 U+21B6        curvearrowright;                U+21B7        cuvee;                          U+22CE        cuwed;                          U+22CF        cwconint;                       U+2232        cwint;                          U+2231        cylcty;                         U+232D        dArr;                           U+21D3        dHar;                           U+2965        dagger;                         U+2020        daleth;                         U+2138        darr;                           U+2193        dash;                           U+2010        dashv;                          U+22A3        dbkarow;                        U+290F        dblac;                          U+02DD        dcaron;                         U+010F        dcy;                            U+0434        dd;                             U+2146        ddagger;                        U+2021        ddarr;                          U+21CA        ddotseq;                        U+2A77        deg                             U+00B0        deg;                            U+00B0        delta;                          U+03B4        demptyv;                        U+29B1        dfisht;                         U+297F        dfr;                            U+1D521       dharl;                          U+21C3        dharr;                          U+21C2        diam;                           U+22C4        diamond;                        U+22C4        diamondsuit;                    U+2666        diams;                          U+2666        die;                            U+00A8        "
    \o "digamma;                        U+03DD        disin;                          U+22F2        div;                            U+00F7        divide                          U+00F7        divide;                         U+00F7        divideontimes;                  U+22C7        divonx;                         U+22C7        djcy;                           U+0452        dlcorn;                         U+231E        dlcrop;                         U+230D        dollar;                         $             dopf;                           U+1D555       dot;                            U+02D9        doteq;                          U+2250        doteqdot;                       U+2251        dotminus;                       U+2238        dotplus;                        U+2214        dotsquare;                      U+22A1        doublebarwedge;                 U+2306        downarrow;                      U+2193        downdownarrows;                 U+21CA        downharpoonleft;                U+21C3        downharpoonright;               U+21C2        drbkarow;                       U+2910        drcorn;                         U+231F        drcrop;                         U+230C        dscr;                           U+1D4B9       dscy;                           U+0455        dsol;                           U+29F6        dstrok;                         U+0111        dtdot;                          U+22F1        dtri;                           U+25BF        dtrif;                          U+25BE        duarr;                          U+21F5        duhar;                          U+296F        dwangle;                        U+29A6        dzcy;                           U+045F        dzigrarr;                       U+27FF        eDDot;                          U+2A77        eDot;                           U+2251        eacute                          U+00E9        eacute;                         U+00E9        easter;                         U+2A6E        ecaron;                         U+011B        ecir;                           U+2256        ecirc                           U+00EA        ecirc;                          U+00EA        ecolon;                         U+2255        ecy;                            U+044D        edot;                           U+0117        ee;                             U+2147        efDot;                          U+2252        efr;                            U+1D522       eg;                             U+2A9A        egrave                          U+00E8        egrave;                         U+00E8        egs;                            U+2A96        egsdot;                         U+2A98        el;                             U+2A99        elinters;                       U+23E7        ell;                            U+2113        els;                            U+2A95        elsdot;                         U+2A97        emacr;                          U+0113        empty;                          U+2205        emptyset;                       U+2205        emptyv;                         U+2205        emsp13;                         U+2004        emsp14;                         U+2005        emsp;                           U+2003        eng;                            U+014B        ensp;                           U+2002        eogon;                          U+0119        eopf;                           U+1D556       epar;                           U+22D5        eparsl;                         U+29E3        eplus;                          U+2A71        epsi;                           U+03B5        epsilon;                        U+03B5        epsiv;                          U+03F5        eqcirc;                         U+2256        eqcolon;                        U+2255        eqsim;                          U+2242        eqslantgtr;                     U+2A96        eqslantless;                    U+2A95        equals;                         =             "
    \o "equest;                         U+225F        equiv;                          U+2261        equivDD;                        U+2A78        eqvparsl;                       U+29E5        erDot;                          U+2253        erarr;                          U+2971        escr;                           U+212F        esdot;                          U+2250        esim;                           U+2242        eta;                            U+03B7        eth                             U+00F0        eth;                            U+00F0        euml                            U+00EB        euml;                           U+00EB        euro;                           U+20AC        excl;                           !             exist;                          U+2203        expectation;                    U+2130        exponentiale;                   U+2147        fallingdotseq;                  U+2252        fcy;                            U+0444        female;                         U+2640        ffilig;                         U+FB03        fflig;                          U+FB00        ffllig;                         U+FB04        ffr;                            U+1D523       filig;                          U+FB01        fjlig;                          f      j      flat;                           U+266D        fllig;                          U+FB02        fltns;                          U+25B1        fnof;                           U+0192        fopf;                           U+1D557       forall;                         U+2200        fork;                           U+22D4        forkv;                          U+2AD9        fpartint;                       U+2A0D        frac12                          U+00BD        frac12;                         U+00BD        frac13;                         U+2153        frac14                          U+00BC        frac14;                         U+00BC        frac15;                         U+2155        frac16;                         U+2159        frac18;                         U+215B        frac23;                         U+2154        frac25;                         U+2156        frac34                          U+00BE        frac34;                         U+00BE        frac35;                         U+2157        frac38;                         U+215C        frac45;                         U+2158        frac56;                         U+215A        frac58;                         U+215D        frac78;                         U+215E        frasl;                          U+2044        frown;                          U+2322        fscr;                           U+1D4BB       gE;                             U+2267        gEl;                            U+2A8C        gacute;                         U+01F5        gamma;                          U+03B3        gammad;                         U+03DD        gap;                            U+2A86        gbreve;                         U+011F        gcirc;                          U+011D        gcy;                            U+0433        gdot;                           U+0121        ge;                             U+2265        gel;                            U+22DB        geq;                            U+2265        geqq;                           U+2267        geqslant;                       U+2A7E        ges;                            U+2A7E        gescc;                          U+2AA9        gesdot;                         U+2A80        gesdoto;                        U+2A82        gesdotol;                       U+2A84        gesl;                           U+22DB U+FE00 gesles;                         U+2A94        gfr;                            U+1D524       gg;                             U+226B        ggg;                            U+22D9        gimel;                          U+2137        gjcy;                           U+0453        gl;                             U+2277        "
    \o "glE;                            U+2A92        gla;                            U+2AA5        glj;                            U+2AA4        gnE;                            U+2269        gnap;                           U+2A8A        gnapprox;                       U+2A8A        gne;                            U+2A88        gneq;                           U+2A88        gneqq;                          U+2269        gnsim;                          U+22E7        gopf;                           U+1D558       grave;                          U+0060        gscr;                           U+210A        gsim;                           U+2273        gsime;                          U+2A8E        gsiml;                          U+2A90        gt                              >             gt;                             >             gtcc;                           U+2AA7        gtcir;                          U+2A7A        gtdot;                          U+22D7        gtlPar;                         U+2995        gtquest;                        U+2A7C        gtrapprox;                      U+2A86        gtrarr;                         U+2978        gtrdot;                         U+22D7        gtreqless;                      U+22DB        gtreqqless;                     U+2A8C        gtrless;                        U+2277        gtrsim;                         U+2273        gvertneqq;                      U+2269 U+FE00 gvnE;                           U+2269 U+FE00 hArr;                           U+21D4        hairsp;                         U+200A        half;                           U+00BD        hamilt;                         U+210B        hardcy;                         U+044A        harr;                           U+2194        harrcir;                        U+2948        harrw;                          U+21AD        hbar;                           U+210F        hcirc;                          U+0125        hearts;                         U+2665        heartsuit;                      U+2665        hellip;                         U+2026        hercon;                         U+22B9        hfr;                            U+1D525       hksearow;                       U+2925        hkswarow;                       U+2926        hoarr;                          U+21FF        homtht;                         U+223B        hookleftarrow;                  U+21A9        hookrightarrow;                 U+21AA        hopf;                           U+1D559       horbar;                         U+2015        hscr;                           U+1D4BD       hslash;                         U+210F        hstrok;                         U+0127        hybull;                         U+2043        hyphen;                         U+2010        iacute                          U+00ED        iacute;                         U+00ED        ic;                             U+2063        icirc                           U+00EE        icirc;                          U+00EE        icy;                            U+0438        iecy;                           U+0435        iexcl                           U+00A1        iexcl;                          U+00A1        iff;                            U+21D4        ifr;                            U+1D526       igrave                          U+00EC        igrave;                         U+00EC        ii;                             U+2148        iiiint;                         U+2A0C        iiint;                          U+222D        iinfin;                         U+29DC        iiota;                          U+2129        ijlig;                          U+0133        imacr;                          U+012B        image;                          U+2111        imagline;                       U+2110        imagpart;                       U+2111        imath;                          U+0131        imof;                           U+22B7        imped;                          U+01B5        "
    \o "in;                             U+2208        incare;                         U+2105        infin;                          U+221E        infintie;                       U+29DD        inodot;                         U+0131        int;                            U+222B        intcal;                         U+22BA        integers;                       U+2124        intercal;                       U+22BA        intlarhk;                       U+2A17        intprod;                        U+2A3C        iocy;                           U+0451        iogon;                          U+012F        iopf;                           U+1D55A       iota;                           U+03B9        iprod;                          U+2A3C        iquest                          U+00BF        iquest;                         U+00BF        iscr;                           U+1D4BE       isin;                           U+2208        isinE;                          U+22F9        isindot;                        U+22F5        isins;                          U+22F4        isinsv;                         U+22F3        isinv;                          U+2208        it;                             U+2062        itilde;                         U+0129        iukcy;                          U+0456        iuml                            U+00EF        iuml;                           U+00EF        jcirc;                          U+0135        jcy;                            U+0439        jfr;                            U+1D527       jmath;                          U+0237        jopf;                           U+1D55B       jscr;                           U+1D4BF       jsercy;                         U+0458        jukcy;                          U+0454        kappa;                          U+03BA        kappav;                         U+03F0        kcedil;                         U+0137        kcy;                            U+043A        kfr;                            U+1D528       kgreen;                         U+0138        khcy;                           U+0445        kjcy;                           U+045C        kopf;                           U+1D55C       kscr;                           U+1D4C0       lAarr;                          U+21DA        lArr;                           U+21D0        lAtail;                         U+291B        lBarr;                          U+290E        lE;                             U+2266        lEg;                            U+2A8B        lHar;                           U+2962        lacute;                         U+013A        laemptyv;                       U+29B4        lagran;                         U+2112        lambda;                         U+03BB        lang;                           U+27E8        langd;                          U+2991        langle;                         U+27E8        lap;                            U+2A85        laquo                           U+00AB        laquo;                          U+00AB        larr;                           U+2190        larrb;                          U+21E4        larrbfs;                        U+291F        larrfs;                         U+291D        larrhk;                         U+21A9        larrlp;                         U+21AB        larrpl;                         U+2939        larrsim;                        U+2973        larrtl;                         U+21A2        lat;                            U+2AAB        latail;                         U+2919        late;                           U+2AAD        lates;                          U+2AAD U+FE00 lbarr;                          U+290C        lbbrk;                          U+2772        lbrace;                         {             lbrack;                         [             lbrke;                          U+298B        lbrksld;                        U+298F        lbrkslu;                        U+298D        lcaron;                         U+013E        "
    \o "lcedil;                         U+013C        lceil;                          U+2308        lcub;                           {             lcy;                            U+043B        ldca;                           U+2936        ldquo;                          U+201C        ldquor;                         U+201E        ldrdhar;                        U+2967        ldrushar;                       U+294B        ldsh;                           U+21B2        le;                             U+2264        leftarrow;                      U+2190        leftarrowtail;                  U+21A2        leftharpoondown;                U+21BD        leftharpoonup;                  U+21BC        leftleftarrows;                 U+21C7        leftrightarrow;                 U+2194        leftrightarrows;                U+21C6        leftrightharpoons;              U+21CB        leftrightsquigarrow;            U+21AD        leftthreetimes;                 U+22CB        leg;                            U+22DA        leq;                            U+2264        leqq;                           U+2266        leqslant;                       U+2A7D        les;                            U+2A7D        lescc;                          U+2AA8        lesdot;                         U+2A7F        lesdoto;                        U+2A81        lesdotor;                       U+2A83        lesg;                           U+22DA U+FE00 lesges;                         U+2A93        lessapprox;                     U+2A85        lessdot;                        U+22D6        lesseqgtr;                      U+22DA        lesseqqgtr;                     U+2A8B        lessgtr;                        U+2276        lesssim;                        U+2272        lfisht;                         U+297C        lfloor;                         U+230A        lfr;                            U+1D529       lg;                             U+2276        lgE;                            U+2A91        lhard;                          U+21BD        lharu;                          U+21BC        lharul;                         U+296A        lhblk;                          U+2584        ljcy;                           U+0459        ll;                             U+226A        llarr;                          U+21C7        llcorner;                       U+231E        llhard;                         U+296B        lltri;                          U+25FA        lmidot;                         U+0140        lmoust;                         U+23B0        lmoustache;                     U+23B0        lnE;                            U+2268        lnap;                           U+2A89        lnapprox;                       U+2A89        lne;                            U+2A87        lneq;                           U+2A87        lneqq;                          U+2268        lnsim;                          U+22E6        loang;                          U+27EC        loarr;                          U+21FD        lobrk;                          U+27E6        longleftarrow;                  U+27F5        longleftrightarrow;             U+27F7        longmapsto;                     U+27FC        longrightarrow;                 U+27F6        looparrowleft;                  U+21AB        looparrowright;                 U+21AC        lopar;                          U+2985        lopf;                           U+1D55D       loplus;                         U+2A2D        lotimes;                        U+2A34        lowast;                         U+2217        lowbar;                         _             loz;                            U+25CA        lozenge;                        U+25CA        lozf;                           U+29EB        lpar;                           (             lparlt;                         U+2993        lrarr;                          U+21C6        lrcorner;                       U+231F        lrhar;                          U+21CB        "
    \o "lrhard;                         U+296D        lrm;                            U+200E        lrtri;                          U+22BF        lsaquo;                         U+2039        lscr;                           U+1D4C1       lsh;                            U+21B0        lsim;                           U+2272        lsime;                          U+2A8D        lsimg;                          U+2A8F        lsqb;                           [             lsquo;                          U+2018        lsquor;                         U+201A        lstrok;                         U+0142        lt                              <             lt;                             <             ltcc;                           U+2AA6        ltcir;                          U+2A79        ltdot;                          U+22D6        lthree;                         U+22CB        ltimes;                         U+22C9        ltlarr;                         U+2976        ltquest;                        U+2A7B        ltrPar;                         U+2996        ltri;                           U+25C3        ltrie;                          U+22B4        ltrif;                          U+25C2        lurdshar;                       U+294A        luruhar;                        U+2966        lvertneqq;                      U+2268 U+FE00 lvnE;                           U+2268 U+FE00 mDDot;                          U+223A        macr                            U+00AF        macr;                           U+00AF        male;                           U+2642        malt;                           U+2720        maltese;                        U+2720        map;                            U+21A6        mapsto;                         U+21A6        mapstodown;                     U+21A7        mapstoleft;                     U+21A4        mapstoup;                       U+21A5        marker;                         U+25AE        mcomma;                         U+2A29        mcy;                            U+043C        mdash;                          U+2014        measuredangle;                  U+2221        mfr;                            U+1D52A       mho;                            U+2127        micro                           U+00B5        micro;                          U+00B5        mid;                            U+2223        midast;                         *             midcir;                         U+2AF0        middot                          U+00B7        middot;                         U+00B7        minus;                          U+2212        minusb;                         U+229F        minusd;                         U+2238        minusdu;                        U+2A2A        mlcp;                           U+2ADB        mldr;                           U+2026        mnplus;                         U+2213        models;                         U+22A7        mopf;                           U+1D55E       mp;                             U+2213        mscr;                           U+1D4C2       mstpos;                         U+223E        mu;                             U+03BC        multimap;                       U+22B8        mumap;                          U+22B8        nGg;                            U+22D9 U+0338 nGt;                            U+226B U+20D2 nGtv;                           U+226B U+0338 nLeftarrow;                     U+21CD        nLeftrightarrow;                U+21CE        nLl;                            U+22D8 U+0338 nLt;                            U+226A U+20D2 nLtv;                           U+226A U+0338 nRightarrow;                    U+21CF        nVDash;                         U+22AF        nVdash;                         U+22AE        nabla;                          U+2207        nacute;                         U+0144        nang;                           U+2220 U+20D2 nap;                            U+2249        napE;                           U+2A70 U+0338 "
    \o "napid;                          U+224B U+0338 napos;                          U+0149        napprox;                        U+2249        natur;                          U+266E        natural;                        U+266E        naturals;                       U+2115        nbsp                            U+00A0        nbsp;                           U+00A0        nbump;                          U+224E U+0338 nbumpe;                         U+224F U+0338 ncap;                           U+2A43        ncaron;                         U+0148        ncedil;                         U+0146        ncong;                          U+2247        ncongdot;                       U+2A6D U+0338 ncup;                           U+2A42        ncy;                            U+043D        ndash;                          U+2013        ne;                             U+2260        neArr;                          U+21D7        nearhk;                         U+2924        nearr;                          U+2197        nearrow;                        U+2197        nedot;                          U+2250 U+0338 nequiv;                         U+2262        nesear;                         U+2928        nesim;                          U+2242 U+0338 nexist;                         U+2204        nexists;                        U+2204        nfr;                            U+1D52B       ngE;                            U+2267 U+0338 nge;                            U+2271        ngeq;                           U+2271        ngeqq;                          U+2267 U+0338 ngeqslant;                      U+2A7E U+0338 nges;                           U+2A7E U+0338 ngsim;                          U+2275        ngt;                            U+226F        ngtr;                           U+226F        nhArr;                          U+21CE        nharr;                          U+21AE        nhpar;                          U+2AF2        ni;                             U+220B        nis;                            U+22FC        nisd;                           U+22FA        niv;                            U+220B        njcy;                           U+045A        nlArr;                          U+21CD        nlE;                            U+2266 U+0338 nlarr;                          U+219A        nldr;                           U+2025        nle;                            U+2270        nleftarrow;                     U+219A        nleftrightarrow;                U+21AE        nleq;                           U+2270        nleqq;                          U+2266 U+0338 nleqslant;                      U+2A7D U+0338 nles;                           U+2A7D U+0338 nless;                          U+226E        nlsim;                          U+2274        nlt;                            U+226E        nltri;                          U+22EA        nltrie;                         U+22EC        nmid;                           U+2224        nopf;                           U+1D55F       not                             U+00AC        not;                            U+00AC        notin;                          U+2209        notinE;                         U+22F9 U+0338 notindot;                       U+22F5 U+0338 notinva;                        U+2209        notinvb;                        U+22F7        notinvc;                        U+22F6        notni;                          U+220C        notniva;                        U+220C        notnivb;                        U+22FE        notnivc;                        U+22FD        npar;                           U+2226        nparallel;                      U+2226        nparsl;                         U+2AFD U+20E5 npart;                          U+2202 U+0338 npolint;                        U+2A14        npr;                            U+2280        nprcue;                         U+22E0        npre;                           U+2AAF U+0338 nprec;                          U+2280        "
    \o "npreceq;                        U+2AAF U+0338 nrArr;                          U+21CF        nrarr;                          U+219B        nrarrc;                         U+2933 U+0338 nrarrw;                         U+219D U+0338 nrightarrow;                    U+219B        nrtri;                          U+22EB        nrtrie;                         U+22ED        nsc;                            U+2281        nsccue;                         U+22E1        nsce;                           U+2AB0 U+0338 nscr;                           U+1D4C3       nshortmid;                      U+2224        nshortparallel;                 U+2226        nsim;                           U+2241        nsime;                          U+2244        nsimeq;                         U+2244        nsmid;                          U+2224        nspar;                          U+2226        nsqsube;                        U+22E2        nsqsupe;                        U+22E3        nsub;                           U+2284        nsubE;                          U+2AC5 U+0338 nsube;                          U+2288        nsubset;                        U+2282 U+20D2 nsubseteq;                      U+2288        nsubseteqq;                     U+2AC5 U+0338 nsucc;                          U+2281        nsucceq;                        U+2AB0 U+0338 nsup;                           U+2285        nsupE;                          U+2AC6 U+0338 nsupe;                          U+2289        nsupset;                        U+2283 U+20D2 nsupseteq;                      U+2289        nsupseteqq;                     U+2AC6 U+0338 ntgl;                           U+2279        ntilde                          U+00F1        ntilde;                         U+00F1        ntlg;                           U+2278        ntriangleleft;                  U+22EA        ntrianglelefteq;                U+22EC        ntriangleright;                 U+22EB        ntrianglerighteq;               U+22ED        nu;                             U+03BD        num;                            #             numero;                         U+2116        numsp;                          U+2007        nvDash;                         U+22AD        nvHarr;                         U+2904        nvap;                           U+224D U+20D2 nvdash;                         U+22AC        nvge;                           U+2265 U+20D2 nvgt;                           >      U+20D2 nvinfin;                        U+29DE        nvlArr;                         U+2902        nvle;                           U+2264 U+20D2 nvlt;                           <      U+20D2 nvltrie;                        U+22B4 U+20D2 nvrArr;                         U+2903        nvrtrie;                        U+22B5 U+20D2 nvsim;                          U+223C U+20D2 nwArr;                          U+21D6        nwarhk;                         U+2923        nwarr;                          U+2196        nwarrow;                        U+2196        nwnear;                         U+2927        oS;                             U+24C8        oacute                          U+00F3        oacute;                         U+00F3        oast;                           U+229B        ocir;                           U+229A        ocirc                           U+00F4        ocirc;                          U+00F4        ocy;                            U+043E        odash;                          U+229D        odblac;                         U+0151        odiv;                           U+2A38        odot;                           U+2299        odsold;                         U+29BC        oelig;                          U+0153        ofcir;                          U+29BF        ofr;                            U+1D52C       ogon;                           U+02DB        ograve                          U+00F2        ograve;                         U+00F2        ogt;                            U+29C1        "
    \o "ohbar;                          U+29B5        ohm;                            U+03A9        oint;                           U+222E        olarr;                          U+21BA        olcir;                          U+29BE        olcross;                        U+29BB        oline;                          U+203E        olt;                            U+29C0        omacr;                          U+014D        omega;                          U+03C9        omicron;                        U+03BF        omid;                           U+29B6        ominus;                         U+2296        oopf;                           U+1D560       opar;                           U+29B7        operp;                          U+29B9        oplus;                          U+2295        or;                             U+2228        orarr;                          U+21BB        ord;                            U+2A5D        order;                          U+2134        orderof;                        U+2134        ordf                            U+00AA        ordf;                           U+00AA        ordm                            U+00BA        ordm;                           U+00BA        origof;                         U+22B6        oror;                           U+2A56        orslope;                        U+2A57        orv;                            U+2A5B        oscr;                           U+2134        oslash                          U+00F8        oslash;                         U+00F8        osol;                           U+2298        otilde                          U+00F5        otilde;                         U+00F5        otimes;                         U+2297        otimesas;                       U+2A36        ouml                            U+00F6        ouml;                           U+00F6        ovbar;                          U+233D        par;                            U+2225        para                            U+00B6        para;                           U+00B6        parallel;                       U+2225        parsim;                         U+2AF3        parsl;                          U+2AFD        part;                           U+2202        pcy;                            U+043F        percnt;                         %             period;                         .             permil;                         U+2030        perp;                           U+22A5        pertenk;                        U+2031        pfr;                            U+1D52D       phi;                            U+03C6        phiv;                           U+03D5        phmmat;                         U+2133        phone;                          U+260E        pi;                             U+03C0        pitchfork;                      U+22D4        piv;                            U+03D6        planck;                         U+210F        planckh;                        U+210E        plankv;                         U+210F        plus;                           +             plusacir;                       U+2A23        plusb;                          U+229E        pluscir;                        U+2A22        plusdo;                         U+2214        plusdu;                         U+2A25        pluse;                          U+2A72        plusmn                          U+00B1        plusmn;                         U+00B1        plussim;                        U+2A26        plustwo;                        U+2A27        pm;                             U+00B1        pointint;                       U+2A15        popf;                           U+1D561       pound                           U+00A3        pound;                          U+00A3        pr;                             U+227A        prE;                            U+2AB3        prap;                           U+2AB7        prcue;                          U+227C        pre;                            U+2AAF        "
    \o "prec;                           U+227A        precapprox;                     U+2AB7        preccurlyeq;                    U+227C        preceq;                         U+2AAF        precnapprox;                    U+2AB9        precneqq;                       U+2AB5        precnsim;                       U+22E8        precsim;                        U+227E        prime;                          U+2032        primes;                         U+2119        prnE;                           U+2AB5        prnap;                          U+2AB9        prnsim;                         U+22E8        prod;                           U+220F        profalar;                       U+232E        profline;                       U+2312        profsurf;                       U+2313        prop;                           U+221D        propto;                         U+221D        prsim;                          U+227E        prurel;                         U+22B0        pscr;                           U+1D4C5       psi;                            U+03C8        puncsp;                         U+2008        qfr;                            U+1D52E       qint;                           U+2A0C        qopf;                           U+1D562       qprime;                         U+2057        qscr;                           U+1D4C6       quaternions;                    U+210D        quatint;                        U+2A16        quest;                          ?             questeq;                        U+225F        quot                            \"             quot;                           \"             rAarr;                          U+21DB        rArr;                           U+21D2        rAtail;                         U+291C        rBarr;                          U+290F        rHar;                           U+2964        race;                           U+223D U+0331 racute;                         U+0155        radic;                          U+221A        raemptyv;                       U+29B3        rang;                           U+27E9        rangd;                          U+2992        range;                          U+29A5        rangle;                         U+27E9        raquo                           U+00BB        raquo;                          U+00BB        rarr;                           U+2192        rarrap;                         U+2975        rarrb;                          U+21E5        rarrbfs;                        U+2920        rarrc;                          U+2933        rarrfs;                         U+291E        rarrhk;                         U+21AA        rarrlp;                         U+21AC        rarrpl;                         U+2945        rarrsim;                        U+2974        rarrtl;                         U+21A3        rarrw;                          U+219D        ratail;                         U+291A        ratio;                          U+2236        rationals;                      U+211A        rbarr;                          U+290D        rbbrk;                          U+2773        rbrace;                         }             rbrack;                         ]             rbrke;                          U+298C        rbrksld;                        U+298E        rbrkslu;                        U+2990        rcaron;                         U+0159        rcedil;                         U+0157        rceil;                          U+2309        rcub;                           }             rcy;                            U+0440        rdca;                           U+2937        rdldhar;                        U+2969        rdquo;                          U+201D        rdquor;                         U+201D        rdsh;                           U+21B3        real;                           U+211C        realine;                        U+211B        realpart;                       U+211C        reals;                          U+211D        "
    \o "rect;                           U+25AD        reg                             U+00AE        reg;                            U+00AE        rfisht;                         U+297D        rfloor;                         U+230B        rfr;                            U+1D52F       rhard;                          U+21C1        rharu;                          U+21C0        rharul;                         U+296C        rho;                            U+03C1        rhov;                           U+03F1        rightarrow;                     U+2192        rightarrowtail;                 U+21A3        rightharpoondown;               U+21C1        rightharpoonup;                 U+21C0        rightleftarrows;                U+21C4        rightleftharpoons;              U+21CC        rightrightarrows;               U+21C9        rightsquigarrow;                U+219D        rightthreetimes;                U+22CC        ring;                           U+02DA        risingdotseq;                   U+2253        rlarr;                          U+21C4        rlhar;                          U+21CC        rlm;                            U+200F        rmoust;                         U+23B1        rmoustache;                     U+23B1        rnmid;                          U+2AEE        roang;                          U+27ED        roarr;                          U+21FE        robrk;                          U+27E7        ropar;                          U+2986        ropf;                           U+1D563       roplus;                         U+2A2E        rotimes;                        U+2A35        rpar;                           )             rpargt;                         U+2994        rppolint;                       U+2A12        rrarr;                          U+21C9        rsaquo;                         U+203A        rscr;                           U+1D4C7       rsh;                            U+21B1        rsqb;                           ]             rsquo;                          U+2019        rsquor;                         U+2019        rthree;                         U+22CC        rtimes;                         U+22CA        rtri;                           U+25B9        rtrie;                          U+22B5        rtrif;                          U+25B8        rtriltri;                       U+29CE        ruluhar;                        U+2968        rx;                             U+211E        sacute;                         U+015B        sbquo;                          U+201A        sc;                             U+227B        scE;                            U+2AB4        scap;                           U+2AB8        scaron;                         U+0161        sccue;                          U+227D        sce;                            U+2AB0        scedil;                         U+015F        scirc;                          U+015D        scnE;                           U+2AB6        scnap;                          U+2ABA        scnsim;                         U+22E9        scpolint;                       U+2A13        scsim;                          U+227F        scy;                            U+0441        sdot;                           U+22C5        sdotb;                          U+22A1        sdote;                          U+2A66        seArr;                          U+21D8        searhk;                         U+2925        searr;                          U+2198        searrow;                        U+2198        sect                            U+00A7        sect;                           U+00A7        semi;                           ;             seswar;                         U+2929        setminus;                       U+2216        setmn;                          U+2216        sext;                           U+2736        sfr;                            U+1D530       sfrown;                         U+2322        sharp;                          U+266F        "
    \o "shchcy;                         U+0449        shcy;                           U+0448        shortmid;                       U+2223        shortparallel;                  U+2225        shy                             U+00AD        shy;                            U+00AD        sigma;                          U+03C3        sigmaf;                         U+03C2        sigmav;                         U+03C2        sim;                            U+223C        simdot;                         U+2A6A        sime;                           U+2243        simeq;                          U+2243        simg;                           U+2A9E        simgE;                          U+2AA0        siml;                           U+2A9D        simlE;                          U+2A9F        simne;                          U+2246        simplus;                        U+2A24        simrarr;                        U+2972        slarr;                          U+2190        smallsetminus;                  U+2216        smashp;                         U+2A33        smeparsl;                       U+29E4        smid;                           U+2223        smile;                          U+2323        smt;                            U+2AAA        smte;                           U+2AAC        smtes;                          U+2AAC U+FE00 softcy;                         U+044C        sol;                            /             solb;                           U+29C4        solbar;                         U+233F        sopf;                           U+1D564       spades;                         U+2660        spadesuit;                      U+2660        spar;                           U+2225        sqcap;                          U+2293        sqcaps;                         U+2293 U+FE00 sqcup;                          U+2294        sqcups;                         U+2294 U+FE00 sqsub;                          U+228F        sqsube;                         U+2291        sqsubset;                       U+228F        sqsubseteq;                     U+2291        sqsup;                          U+2290        sqsupe;                         U+2292        sqsupset;                       U+2290        sqsupseteq;                     U+2292        squ;                            U+25A1        square;                         U+25A1        squarf;                         U+25AA        squf;                           U+25AA        srarr;                          U+2192        sscr;                           U+1D4C8       ssetmn;                         U+2216        ssmile;                         U+2323        sstarf;                         U+22C6        star;                           U+2606        starf;                          U+2605        straightepsilon;                U+03F5        straightphi;                    U+03D5        strns;                          U+00AF        sub;                            U+2282        subE;                           U+2AC5        subdot;                         U+2ABD        sube;                           U+2286        subedot;                        U+2AC3        submult;                        U+2AC1        subnE;                          U+2ACB        subne;                          U+228A        subplus;                        U+2ABF        subrarr;                        U+2979        subset;                         U+2282        subseteq;                       U+2286        subseteqq;                      U+2AC5        subsetneq;                      U+228A        subsetneqq;                     U+2ACB        subsim;                         U+2AC7        subsub;                         U+2AD5        subsup;                         U+2AD3        succ;                           U+227B        succapprox;                     U+2AB8        succcurlyeq;                    U+227D        succeq;                         U+2AB0        succnapprox;                    U+2ABA        "
    \o "succneqq;                       U+2AB6        succnsim;                       U+22E9        succsim;                        U+227F        sum;                            U+2211        sung;                           U+266A        sup1                            U+00B9        sup1;                           U+00B9        sup2                            U+00B2        sup2;                           U+00B2        sup3                            U+00B3        sup3;                           U+00B3        sup;                            U+2283        supE;                           U+2AC6        supdot;                         U+2ABE        supdsub;                        U+2AD8        supe;                           U+2287        supedot;                        U+2AC4        suphsol;                        U+27C9        suphsub;                        U+2AD7        suplarr;                        U+297B        supmult;                        U+2AC2        supnE;                          U+2ACC        supne;                          U+228B        supplus;                        U+2AC0        supset;                         U+2283        supseteq;                       U+2287        supseteqq;                      U+2AC6        supsetneq;                      U+228B        supsetneqq;                     U+2ACC        supsim;                         U+2AC8        supsub;                         U+2AD4        supsup;                         U+2AD6        swArr;                          U+21D9        swarhk;                         U+2926        swarr;                          U+2199        swarrow;                        U+2199        swnwar;                         U+292A        szlig                           U+00DF        szlig;                          U+00DF        target;                         U+2316        tau;                            U+03C4        tbrk;                           U+23B4        tcaron;                         U+0165        tcedil;                         U+0163        tcy;                            U+0442        tdot;                           U+20DB        telrec;                         U+2315        tfr;                            U+1D531       there4;                         U+2234        therefore;                      U+2234        theta;                          U+03B8        thetasym;                       U+03D1        thetav;                         U+03D1        thickapprox;                    U+2248        thicksim;                       U+223C        thinsp;                         U+2009        thkap;                          U+2248        thksim;                         U+223C        thorn                           U+00FE        thorn;                          U+00FE        tilde;                          U+02DC        times                           U+00D7        times;                          U+00D7        timesb;                         U+22A0        timesbar;                       U+2A31        timesd;                         U+2A30        tint;                           U+222D        toea;                           U+2928        top;                            U+22A4        topbot;                         U+2336        topcir;                         U+2AF1        topf;                           U+1D565       topfork;                        U+2ADA        tosa;                           U+2929        tprime;                         U+2034        trade;                          U+2122        triangle;                       U+25B5        triangledown;                   U+25BF        triangleleft;                   U+25C3        trianglelefteq;                 U+22B4        triangleq;                      U+225C        triangleright;                  U+25B9        trianglerighteq;                U+22B5        tridot;                         U+25EC        trie;                           U+225C        triminus;                       U+2A3A        "
    \o "triplus;                        U+2A39        trisb;                          U+29CD        tritime;                        U+2A3B        trpezium;                       U+23E2        tscr;                           U+1D4C9       tscy;                           U+0446        tshcy;                          U+045B        tstrok;                         U+0167        twixt;                          U+226C        twoheadleftarrow;               U+219E        twoheadrightarrow;              U+21A0        uArr;                           U+21D1        uHar;                           U+2963        uacute                          U+00FA        uacute;                         U+00FA        uarr;                           U+2191        ubrcy;                          U+045E        ubreve;                         U+016D        ucirc                           U+00FB        ucirc;                          U+00FB        ucy;                            U+0443        udarr;                          U+21C5        udblac;                         U+0171        udhar;                          U+296E        ufisht;                         U+297E        ufr;                            U+1D532       ugrave                          U+00F9        ugrave;                         U+00F9        uharl;                          U+21BF        uharr;                          U+21BE        uhblk;                          U+2580        ulcorn;                         U+231C        ulcorner;                       U+231C        ulcrop;                         U+230F        ultri;                          U+25F8        umacr;                          U+016B        uml                             U+00A8        uml;                            U+00A8        uogon;                          U+0173        uopf;                           U+1D566       uparrow;                        U+2191        updownarrow;                    U+2195        upharpoonleft;                  U+21BF        upharpoonright;                 U+21BE        uplus;                          U+228E        upsi;                           U+03C5        upsih;                          U+03D2        upsilon;                        U+03C5        upuparrows;                     U+21C8        urcorn;                         U+231D        urcorner;                       U+231D        urcrop;                         U+230E        uring;                          U+016F        urtri;                          U+25F9        uscr;                           U+1D4CA       utdot;                          U+22F0        utilde;                         U+0169        utri;                           U+25B5        utrif;                          U+25B4        uuarr;                          U+21C8        uuml                            U+00FC        uuml;                           U+00FC        uwangle;                        U+29A7        vArr;                           U+21D5        vBar;                           U+2AE8        vBarv;                          U+2AE9        vDash;                          U+22A8        vangrt;                         U+299C        varepsilon;                     U+03F5        varkappa;                       U+03F0        varnothing;                     U+2205        varphi;                         U+03D5        varpi;                          U+03D6        varpropto;                      U+221D        varr;                           U+2195        varrho;                         U+03F1        varsigma;                       U+03C2        varsubsetneq;                   U+228A U+FE00 varsubsetneqq;                  U+2ACB U+FE00 varsupsetneq;                   U+228B U+FE00 varsupsetneqq;                  U+2ACC U+FE00 vartheta;                       U+03D1        vartriangleleft;                U+22B2        vartriangleright;               U+22B3        vcy;                            U+0432        vdash;                          U+22A2        "
    \o "vee;                            U+2228        veebar;                         U+22BB        veeeq;                          U+225A        vellip;                         U+22EE        verbar;                         |             vert;                           |             vfr;                            U+1D533       vltri;                          U+22B2        vnsub;                          U+2282 U+20D2 vnsup;                          U+2283 U+20D2 vopf;                           U+1D567       vprop;                          U+221D        vrtri;                          U+22B3        vscr;                           U+1D4CB       vsubnE;                         U+2ACB U+FE00 vsubne;                         U+228A U+FE00 vsupnE;                         U+2ACC U+FE00 vsupne;                         U+228B U+FE00 vzigzag;                        U+299A        wcirc;                          U+0175        wedbar;                         U+2A5F        wedge;                          U+2227        wedgeq;                         U+2259        weierp;                         U+2118        wfr;                            U+1D534       wopf;                           U+1D568       wp;                             U+2118        wr;                             U+2240        wreath;                         U+2240        wscr;                           U+1D4CC       xcap;                           U+22C2        xcirc;                          U+25EF        xcup;                           U+22C3        xdtri;                          U+25BD        xfr;                            U+1D535       xhArr;                          U+27FA        xharr;                          U+27F7        xi;                             U+03BE        xlArr;                          U+27F8        xlarr;                          U+27F5        xmap;                           U+27FC        xnis;                           U+22FB        xodot;                          U+2A00        xopf;                           U+1D569       xoplus;                         U+2A01        xotime;                         U+2A02        xrArr;                          U+27F9        xrarr;                          U+27F6        xscr;                           U+1D4CD       xsqcup;                         U+2A06        xuplus;                         U+2A04        xutri;                          U+25B3        xvee;                           U+22C1        xwedge;                         U+22C0        yacute                          U+00FD        yacute;                         U+00FD        yacy;                           U+044F        ycirc;                          U+0177        ycy;                            U+044B        yen                             U+00A5        yen;                            U+00A5        yfr;                            U+1D536       yicy;                           U+0457        yopf;                           U+1D56A       yscr;                           U+1D4CE       yucy;                           U+044E        yuml                            U+00FF        yuml;                           U+00FF        zacute;                         U+017A        zcaron;                         U+017E        zcy;                            U+0437        zdot;                           U+017C        zeetrf;                         U+2128        zeta;                           U+03B6        zfr;                            U+1D537       zhcy;                           U+0436        zigrarr;                        U+21DD        zopf;                           U+1D56B       zscr;                           U+1D4CF       zwj;                            U+200D        zwnj;                           U+200C        "

\* html._invalid_codepoints
InvalidCodepoints ==
    {1, 2, 3, 4, 5, 6, 7, 8, 11, 14, 15, 16, 17, 18, 19, 20, 21, 22, 23, 24, 25, 26, 27, 28,
      29, 30, 31, 127, 128, 129, 130, 131, 132, 133, 134, 135, 136, 137, 138, 139, 140, 141,
      142, 143, 144, 145, 146, 147, 148, 149, 150, 151, 152, 153, 154, 155, 156, 157, 158, 159,
      64976, 64977, 64978, 64979, 64980, 64981, 64982, 64983, 64984, 64985, 64986, 64987,
      64988, 64989, 64990, 64991, 64992, 64993, 64994, 64995, 64996, 64997, 64998, 64999,
      65000, 65001, 65002, 65003, 65004, 65005, 65006, 65007, 65534, 65535, 131070, 131071,
      196606, 196607, 262142, 262143, 327678, 327679, 393214, 393215, 458750, 458751, 524286,
      524287, 589822, 589823, 655358, 655359, 720894, 720895, 786430, 786431, 851966, 851967,
      917502, 917503, 983038, 983039, 1048574, 1048575, 1114110, 1114111}

\* the field of w places that starts at place p of a table, without the
\* blanks that fill it up
Field(data, p, w) ==
    SubSeq(data, p, p - 1 + (CHOOSE n \in 0..w :
                                 /\ \A i \in (n + 1)..w : SubSeq(data, p - 1 + i, p - 1 + i) = " "
                                 /\ n = 0 \/ SubSeq(data, p - 1 + n, p - 1 + n) # " "))

\* the characters of a table whose fields of w places hold one character
\* each
CharsOfTable(data, w) == {Field(data, (w * k) + 1, w) : k \in 0..((Len(data) \div w) - 1)}

\* the pairs <<key, text>> of a table: a key of kw places and m fields of w
\* places for the characters of its text
MapOfTable(data, kw, w, m) ==
    {<<Field(data, p, kw),
       SelectSeq([j \in 1..m |-> Field(data, p + kw + (w * (j - 1)), w)],
                 LAMBDA c : c # "")>> :
        p \in {((kw + (w * m)) * k) + 1 : k \in 0..((Len(data) \div (kw + (w * m))) - 1)}}

Decimals == MapOfTable(DecimalData, 7, 1, 1)

DecimalChars == {p[1] : p \in Decimals}

CasedChars == CharsOfTable(CasedData, 7)

CaseIgnorable == CharsOfTable(CaseIgnorableData, 7)

UpperFull == MapOfTable(UpperData, 7, 7, 3)

LowerFull == MapOfTable(LowerData, 7, 7, 2)

TitleFull == MapOfTable(TitleData, 7, 7, 3)

\* the text a table gives for a key, the key itself when the table does not
\* hold it
Mapped(table, c) ==
    IF \E p \in table : p[1] = c THEN (CHOOSE p \in table : p[1] = c)[2] ELSE <<c>>

\* str.isspace() of a character
IsSpace(c) == c \in Whitespace

\* whether the class \d of a str pattern matches the character, which is
\* whether int() and float() read it as a digit
IsDecimal(c) == c \in DecimalChars

UpperLetters == "ABCDEFGHIJKLMNOPQRSTUVWXYZ"

LowerLetters == "abcdefghijklmnopqrstuvwxyz"

IsUpperLetter(c) == \E i \in 1..26 : SubSeq(UpperLetters, i, i) = c

IsLowerLetter(c) == \E i \in 1..26 : SubSeq(LowerLetters, i, i) = c

\* upper and lower case of a character of ASCII, any other character as it
\* is
UpperChar(c) ==
    IF IsLowerLetter(c)
    THEN SubSeq(UpperLetters, CHOOSE i \in 1..26 : SubSeq(LowerLetters, i, i) = c,
                CHOOSE i \in 1..26 : SubSeq(LowerLetters, i, i) = c)
    ELSE c

LowerChar(c) ==
    IF IsUpperLetter(c)
    THEN SubSeq(LowerLetters, CHOOSE i \in 1..26 : SubSeq(UpperLetters, i, i) = c,
                CHOOSE i \in 1..26 : SubSeq(UpperLetters, i, i) = c)
    ELSE c

\* whether every character of the text is one of CharOrder
IsPlainText(s) == \A i \in 1..Len(s) : IsPlain(s[i])

\* the places of a text that hold a cased character, and a case-ignorable
\* one
CasedIn(s) == {i \in 1..Len(s) : s[i] \in CasedChars}

CaseIgnorableIn(s) == {i \in 1..Len(s) : s[i] \in CaseIgnorable}

\* the capital sigma, and its two lower cases
CapitalSigma == "U+03A3"

FinalSigma == "U+03C2"

SmallSigma == "U+03C3"

\* the lower case of the character at i of a text, given the places of the
\* text that hold a cased and a case-ignorable character.  The capital sigma
\* that ends a word is lowered to the final sigma: the nearest place before
\* it that is not case-ignorable is cased, and the nearest one after it is
\* not.
LowerAt(s, i, cased, ignorable) ==
    IF s[i] # CapitalSigma THEN Mapped(LowerFull, s[i])
    ELSE IF /\ \E j \in cased \ ignorable :
                  j < i /\ \A k \in (j + 1)..(i - 1) : k \in ignorable
            /\ \A j \in cased \ ignorable :
                  j > i => \E k \in (i + 1)..(j - 1) : k \notin ignorable
    THEN <<FinalSigma>>
    ELSE <<SmallSigma>>

\* str.upper().  (In this and the operators below the text is taken once,
\* as t, whatever expression gives it.)
Upper(s) ==
    CHOOSE r \in {IF IsPlainText(t) THEN [i \in 1..Len(t) |-> UpperChar(t[i])]
                  ELSE Flatten([i \in 1..Len(t) |-> Mapped(UpperFull, t[i])]) : t \in {s}} : TRUE

\* str.lower()
Lower(s) ==
    CHOOSE r \in {IF IsPlainText(t) THEN [i \in 1..Len(t) |-> LowerChar(t[i])]
                  ELSE Flatten([i \in 1..Len(t) |->
                                   LowerAt(t, i, CasedIn(t), CaseIgnorableIn(t))]) :
                     t \in {s}} : TRUE

\* str.title(): a character that follows a cased one is lowered, any other
\* one is put in title case
Title(s) ==
    CHOOSE r \in UNION {{IF IsPlainText(t)
                         THEN [i \in 1..Len(t) |->
                                  IF (i - 1) \in cased THEN LowerChar(t[i])
                                  ELSE UpperChar(t[i])]
                         ELSE Flatten([i \in 1..Len(t) |->
                                          IF (i - 1) \in cased
                                          THEN LowerAt(t, i, cased, CaseIgnorableIn(t))
                                          ELSE Mapped(TitleFull, t[i])]) :
                            cased \in {CasedIn(t)}} : t \in {s}} : TRUE

\* str.strip(): the text from its first to its last character that is not
\* whitespace
Strip(s) ==
    CHOOSE r \in UNION {{IF kept = {} THEN <<>>
                         ELSE SubSeq(t, CHOOSE i \in kept : \A j \in kept : i <= j,
                                     CHOOSE i \in kept : \A j \in kept : j <= i) :
                            kept \in {{i \in 1..Len(t) : ~IsSpace(t[i])}}} : t \in {s}} : TRUE

\* s < t for Python str: by code point
RECURSIVE StrLess(_, _)
StrLess(s, t) ==
    IF t = <<>> THEN FALSE
    ELSE IF s = <<>> THEN TRUE
    ELSE IF Head(s) # Head(t) THEN Ord(Head(s)) < Ord(Head(t))
    ELSE StrLess(Tail(s), Tail(t))

\* ------------------------------------------------------------------------
\* The remote catalog
\* ------------------------------------------------------------------------

\* A feature's attributes.  sub is SubdivisionName: null, or a text.
\* rev stands for the remaining attributes of the feature.  The names of the
\* first rows: null, "A", " a", "a", "B", "__blank__" (in upper case the key
\* _collect_subdivision_filters keeps for the names that are blank), the
\* empty text and a blank.
FirstRows ==
    << [sched |-> "S1", parcel |-> "P1", oid |-> 1, rev |-> 1,
        sub |-> [null |-> TRUE, text |-> <<>>]],
       [sched |-> "S1", parcel |-> "P1", oid |-> 2, rev |-> 1,
        sub |-> [null |-> FALSE, text |-> <<"A">>]],
       [sched |-> "S1", parcel |-> "P1", oid |-> 1, rev |-> 2,
        sub |-> [null |-> FALSE, text |-> <<" ", "a">>]],
       [sched |-> "S1", parcel |-> "P1", oid |-> 3, rev |-> 1,
        sub |-> [null |-> FALSE, text |-> <<"a">>]],
       [sched |-> "S1", parcel |-> "P1", oid |-> 4, rev |-> 1,
        sub |-> [null |-> FALSE, text |-> <<"B">>]],
       [sched |-> "S1", parcel |-> "P1", oid |-> 5, rev |-> 1,
        sub |-> [null |-> FALSE,
                 text |-> <<"_", "_", "b", "l", "a", "n", "k", "_", "_">>]],
       [sched |-> "S1", parcel |-> "P1", oid |-> 6, rev |-> 1,
        sub |-> [null |-> FALSE, text |-> <<>>]],
       [sched |-> "S1", parcel |-> "P1", oid |-> 7, rev |-> 1,
        sub |-> [null |-> FALSE, text |-> <<" ">>]] >>

\* the rows a catalog holds beyond a whole number of full pages
ExtraRows == {0, 1, 2}

\* the layer: the first rows, then rows of subdivision "B" with an object id
\* each, enough of them for MaxFullPages full pages
Layer ==
    [i \in 1..(MaxFullPages * DefaultMaxRecordCount + Cardinality(ExtraRows) - 1) |->
        IF i <= Len(FirstRows) THEN FirstRows[i]
        ELSE [sched |-> "S1", parcel |-> "P1", oid |-> i - 1, rev |-> 1,
              sub |-> [null |-> FALSE, text |-> <<"B">>]]]

\* mutant: the quotes of the value are left as they are
QuotesLeftSingle(value) == value

\* _escape_sql_literal: every single quote is doubled
RECURSIVE _escape_sql_literal(_)
_escape_sql_literal(value) ==
    IF value = <<>> THEN <<>>
    ELSE (IF Head(value) = "'" THEN <<"'", "'">> ELSE <<Head(value)>>)
         \o _escape_sql_literal(Tail(value))

\* how the catalog reads a quoted literal: a doubled quote stands for one
RECURSIVE SqlLiteralValue(_)
SqlLiteralValue(lit) ==
    IF lit = <<>> THEN <<>>
    ELSE IF Len(lit) >= 2 /\ lit[1] = "'" /\ lit[2] = "'"
         THEN <<"'">> \o SqlLiteralValue(SubSeq(lit, 3, Len(lit)))
         ELSE <<Head(lit)>> \o SqlLiteralValue(Tail(lit))

\* the WHERE clauses the program sends: the base filter 1=1, the equality
\* clause of one subdivision and the clause of the blank bucket
BaseWhere == [kind |-> "all", literal |-> <<>>]

\* does the catalog's row satisfy the clause (exact string comparison)
Matches(f, where) ==
    CASE where.kind = "all" -> TRUE
      [] where.kind = "eq" -> ~f.sub.null /\ f.sub.text = SqlLiteralValue(where.literal)
      [] where.kind = "blank" -> f.sub.null \/ f.sub.text = <<>>

\* the rows of an area that satisfy a clause, in catalog order
FilterRows(matched, where) == SelectSeq(matched, LAMBDA f : Matches(f, where))

\* one page of the catalog: resultOffset and resultRecordCount are honoured
ServerPage(matched, offset, count) ==
    SubSeq(matched, offset + 1, Min(offset + count, Len(matched)))

\* the pages the catalog may answer a request with.  Nothing binds a catalog
\* in its answer to a resultRecordCount below zero: it may send no row, the
\* rows up to its own limit, or the rows but the last -count of them (or an
\* error: QueryFail)
ServerPages(matched, offset, count) ==
    IF count >= 0 THEN {ServerPage(matched, offset, count)}
    ELSE {<<>>,
          ServerPage(matched, offset, DefaultMaxRecordCount),
          SubSeq(matched, offset + 1, Len(matched) + count)}

\* list[:n] of Python: the first n elements, all but the last -n when n < 0
Prefix(list, n) ==
    IF n >= 0 THEN SubSeq(list, 1, Min(n, Len(list)))
    ELSE SubSeq(list, 1, Len(list) + n)

\* ------------------------------------------------------------------------
\* Pure functions of the aggregation
\* ------------------------------------------------------------------------

\* mrc is what getattr(layer.properties, "maxRecordCount", 1000) finds: 0
\* when the attribute is absent (or zero)
_initial_page_size(mrc, max_records) ==
    LET default_size == IF mrc = 0 THEN DefaultMaxRecordCount ELSE mrc
    IN  IF max_records # NoCap THEN Min(default_size, max_records[1]) ELSE default_size

\* mutant: the object id is left out of the key
FeatureKeyWithoutObjectId(feature) == <<feature.sched, feature.parcel, 0>>

_feature_key(feature) == <<feature.sched, feature.parcel, feature.oid>>

\* mutant: a feature whose key was seen replaces the one kept for that key
RECURSIVE AppendLastWins(_, _, _)
AppendLastWins(accumulator, seen, features) ==
    IF features = <<>> THEN [accumulator |-> accumulator, seen |-> seen]
    ELSE IF Len(features) = 1
    THEN LET f == Head(features)
             key == <<f.sched, f.parcel, f.oid>>
         IN  IF key \in seen
             THEN [accumulator |->
                       [i \in 1..Len(accumulator) |->
                           IF <<accumulator[i].sched, accumulator[i].parcel,
                                accumulator[i].oid>> = key
                           THEN f ELSE accumulator[i]],
                   seen |-> seen]
             ELSE [accumulator |-> Append(accumulator, f), seen |-> seen \cup {key}]
    ELSE LET half == Len(features) \div 2
             Then(first) ==
                 CASE Len(first.accumulator) >= 0 ->
                     AppendLastWins(first.accumulator, first.seen,
                                    SubSeq(features, half + 1, Len(features)))
         IN  Then(AppendLastWins(accumulator, seen, SubSeq(features, 1, half)))

\* the loop of _append_unique_features: the features it appends, in order,
\* and the seen set it ends with.  The loop over the features is taken as
\* its first half and then its second
RECURSIVE AppendLoop(_, _)
AppendLoop(seen, features) ==
    IF features = <<>> THEN [appended |-> <<>>, seen |-> seen]
    ELSE IF Len(features) = 1
    THEN LET key == _feature_key(Head(features))
         IN  IF key \in seen
             THEN [appended |-> <<>>, seen |-> seen]
             ELSE [appended |-> features, seen |-> seen \cup {key}]
    ELSE LET half == Len(features) \div 2
             Both(first) ==
                 LET With(second) == [appended |-> first.appended \o second.appended,
                                      seen |-> second.seen]
                 IN  With(AppendLoop(first.seen, SubSeq(features, half + 1, Len(features))))
         IN  Both(AppendLoop(seen, SubSeq(features, 1, half)))

\* _append_unique_features: returns the new accumulator and seen set
_append_unique_features(accumulator, seen, features) ==
    LET Extended(loop) == [accumulator |-> accumulator \o loop.appended,
                           seen |-> loop.seen]
    IN  Extended(AppendLoop(seen, features))

_combine_where(base, clause) ==
    IF clause.kind = "all" THEN base
    ELSE IF base.kind = "all" THEN clause
    ELSE [kind |-> "and", literal |-> clause.literal]

BlankKey == <<"_", "_", "B", "L", "A", "N", "K", "_", "_">>

Unspecified == <<"U", "n", "s", "p", "e", "c", "i", "f", "i", "e", "d">>

\* list.sort(key=...): stable, e goes after every element whose key is not greater
RECURSIVE InsertByLabel(_, _)
InsertByLabel(sorted, e) ==
    IF sorted = <<>> THEN <<e>>
    ELSE IF StrLess(Lower(e.label), Lower(Head(sorted).label))
         THEN <<e>> \o sorted
         ELSE <<Head(sorted)>> \o InsertByLabel(Tail(sorted), e)

RECURSIVE SortByLabel(_)
SortByLabel(filters) ==
    IF filters = <<>> THEN <<>>
    ELSE CHOOSE r \in {InsertByLabel(sorted, filters[Len(filters)]) :
                          sorted \in {SortByLabel(SubSeq(filters, 1, Len(filters) - 1))}} :
             TRUE

\* the loop of _collect_subdivision_filters over the discovered features:
\* the filters it appends, in order, and the keys it has seen.  The loop
\* over the features is taken as its first half and then its second, the
\* outcome of each half being taken once
RECURSIVE CollectLoop(_, _)
CollectLoop(features, seen) ==
    IF features = <<>> THEN [filters |-> <<>>, seen |-> seen]
    ELSE IF Len(features) = 1
    THEN LET attrs == Head(features)
             raw_name == Strip(IF attrs.sub.null THEN <<>> ELSE attrs.sub.text)
             key == IF raw_name # <<>> THEN Upper(raw_name) ELSE BlankKey
             entry == IF raw_name # <<>>
                      THEN [label |-> raw_name,
                            clause |-> [kind |-> "eq",
                                        literal |-> _escape_sql_literal(raw_name)]]
                      ELSE [label |-> Unspecified,
                            clause |-> [kind |-> "blank", literal |-> <<>>]]
         IN  IF key \in seen
             THEN [filters |-> <<>>, seen |-> seen]
             ELSE [filters |-> <<entry>>, seen |-> seen \cup {key}]
    ELSE CHOOSE both \in
             UNION {UNION {{[filters |-> first.filters \o second.filters,
                             seen |-> second.seen] :
                               second \in {CollectLoop(halves[2], first.seen)}} :
                              first \in {CollectLoop(halves[1], seen)}} :
                      halves \in {<<SubSeq(features, 1, Len(features) \div 2),
                                    SubSeq(features, (Len(features) \div 2) + 1,
                                           Len(features))>>}} :
             TRUE

\* _collect_subdivision_filters, given the result of its discovery query
_collect_subdivision_filters(features) ==
    CHOOSE r \in {SortByLabel(loop.filters) : loop \in {CollectLoop(features, {})}} : TRUE

\* ------------------------------------------------------------------------
\* State of one run of main
\* ------------------------------------------------------------------------

VARIABLES
    cfg,                \* the run's inputs: areas, max_records, mrc, all_subdivisions,
                        \* and flags: the exceededTransferLimit the catalog puts
                        \* on the pages of each area
    pc,                 \* "main", "query", "returned", "done", "exit1", "idle"
    area,               \* position of main's loop over the areas
    qf,                 \* the locals of the running query_features call
    ret,                \* the QueryResult last returned to a caller
    sub,                \* the locals of _query_all_subdivisions
    combined_features,  \* main's accumulator
    seen_keys,          \* main's set of identity keys
    exceeded,           \* main's truncation flag
    result,             \* the merged QueryResult main goes on with
    error,              \* the exception that reached main's handler
    requests,           \* history: every page request issued, in order
    arrivals,           \* history: every feature handed to _append_unique_features
    regionResults,      \* history: the QueryResult main received for each area
    ocfg,               \* the owner-table inputs: link_ids (document id and
                        \* both sheet gids are set), excel_output
    rows,               \* the OwnerRows of _format_owner_table
    opc,                \* "build", "built", "linked", "written", "raised", "idle"
    idx,                \* position of _build_owner_registry's loop over the rows
    owners,             \* the registry: the OwnerRecords in insertion order
    property_to_owner,  \* row index -> position of its OwnerRecord in owners
    lookup,             \* identity key -> position of its OwnerRecord in owners
    ws_complex,         \* sheet "By Complex": ws_complex[r] is sheet row r
    ws_owner,           \* sheet "By Owner": ws_owner[r] is sheet row r
    ppc,                \* position of a run of one of the text and table functions
    input,              \* the argument the function is called with
    output,             \* what the function returned
    gui                 \* the ScraperGUI window: its buttons, last_output, status,
                        \* worker threads and the callbacks queued with root.after

\* the variables of the query and aggregation part
qvars == <<cfg, pc, area, qf, ret, sub, combined_features, seen_keys, exceeded,
           result, error, requests, arrivals, regionResults>>

\* the variables of the owner registry and workbook part
ovars == <<ocfg, rows, opc, idx, owners, property_to_owner, lookup, ws_complex,
           ws_owner>>

\* the variables of the runs of the text and table functions
pvars == <<ppc, input, output, gui>>

vars == <<qvars, ovars, pvars>>

\* --max-records: absent, or any integer (argparse type=int)
CapValues == {NoCap} \cup {<<n>> : n \in (0 - MaxBelowZero)..MaxCap}

\* FeatureLayer.properties is the dict the service answered with, and a dict
\* has no attribute maxRecordCount, whatever its keys: the lookup of
\* _initial_page_size finds nothing for every layer the program builds
MrcValues == {0}

NoFrame == [caller |-> "none", where |-> BaseWhere, max_records |-> NoCap,
            page_size |-> 0, offset |-> 0, collected |-> <<>>, pages |-> <<>>]

\* a QueryResult is features and truncated (template.exceededTransferLimit);
\* the other fields are history: who built it, the sizes of the pages of the
\* call, the flag the catalog put on its last page, the flags of the merged
\* results, the number of features before a cut, whether some page that
\* went into it held exactly page_size features, and whether a record limit
\* has cut features off it or off a result that went into it
NoResult == [by |-> "none", features |-> <<>>, truncated |-> FALSE,
             pages |-> <<>>, page_size |-> 0, max_records |-> NoCap,
             flag |-> FALSE, parts |-> <<>>, count |-> 0, full |-> FALSE,
             clipped |-> FALSE]

\* caller: who called _query_all_subdivisions, main or perform_query
NoSub == [caller |-> "none", filters |-> <<>>, idx |-> 0, aggregated |-> <<>>,
          exceeded |-> FALSE, parts |-> <<>>, full |-> FALSE]

NoError == [kind |-> "none", message |-> <<>>, payload |-> <<>>]

\* the remote error objects the catalog may answer with, as key/value pairs
\* in the order the server wrote them
ErrorPayloads ==
    { <<[k |-> "message", v |-> "Invalid query"], [k |-> "details", v |-> "none"],
        [k |-> "code", v |-> "400"]>> }

KeyRank(k) == CASE k = "code" -> 1 [] k = "details" -> 2 [] k = "message" -> 3

\* json.dumps(payload["error"], sort_keys=True): the pairs ordered by key
RECURSIVE InsertByKey(_, _)
InsertByKey(sorted, e) ==
    IF sorted = <<>> THEN <<e>>
    ELSE IF KeyRank(e.k) < KeyRank(Head(sorted).k)
         THEN <<e>> \o sorted
         ELSE <<Head(sorted)>> \o InsertByKey(Tail(sorted), e)

RECURSIVE JsonDumpsSorted(_)
JsonDumpsSorted(pairs) ==
    IF pairs = <<>> THEN <<>>
    ELSE InsertByKey(JsonDumpsSorted(SubSeq(pairs, 1, Len(pairs) - 1)),
                     pairs[Len(pairs)])

\* the rows an envelope of main's areas can select, always a run of
\* consecutive rows: none, or some of the first four rows, from the first
\* row on or up to the fourth; the row named "__blank__" and the row of the
\* empty name; the rows of the empty and of the blank name (the query of the
\* desktop application reaches every row)
Windows ==
    {1..hi : hi \in 0..4} \cup {lo..4 : lo \in 2..4} \cup {6..7, 7..8}

\* the envelopes that hold one full page of DefaultMaxRecordCount rows and a
\* few rows more
BigWindows == {1..(DefaultMaxRecordCount + d) : d \in ExtraRows}

\* the envelopes that hold several full pages, and those with one row more
LongWindows ==
    {1..(k * DefaultMaxRecordCount + d) : k \in 2..MaxFullPages, d \in {0, 1}}

\* the caps that do not shorten the page: DefaultMaxRecordCount and a few more
BigCaps == {<<DefaultMaxRecordCount + d>> : d \in ExtraRows}

\* the rows of an area, a run of consecutive rows, in catalog order
AreaRows(a) ==
    LET From(first, n) == SubSeq(Layer, first, first + n - 1)
        S == cfg.areas[a]
    IN  IF S = {} THEN <<>>
        ELSE From(CHOOSE i \in S : \A j \in S : i <= j, Cardinality(S))

\* query_features up to its first request
NewFrame(caller, where, max_records) ==
    [caller |-> caller, where |-> where, max_records |-> max_records,
     page_size |-> _initial_page_size(cfg.mrc, max_records),
     offset |-> 0, collected |-> <<>>, pages |-> <<>>]

\* the runs over small areas, every request of which is answered in one
\* page; the runs in which one area holds about a page, with the caps about
\* a page, the other areas holding the same few rows, or none; and the runs
\* without a cap in which one area takes several pages
Runs ==
    [areas : [1..NumAreas -> Windows],
     max_records : CapValues,
     mrc : MrcValues,
     all_subdivisions : BOOLEAN,
     flags : [1..NumAreas -> BOOLEAN]]
        \cup {[areas |-> [a \in 1..NumAreas |-> IF a = at THEN big ELSE other],
               max_records |-> cap,
               mrc |-> mrc,
               all_subdivisions |-> all_subdivisions,
               flags |-> [a \in 1..NumAreas |-> a = at /\ flag]] :
                 at \in 1..NumAreas, big \in BigWindows, other \in {{}, 1..2},
                 cap \in {NoCap} \cup BigCaps, mrc \in MrcValues,
                 all_subdivisions \in BOOLEAN, flag \in BOOLEAN}
        \cup {[areas |-> [a \in 1..NumAreas |-> IF a = at THEN long ELSE {}],
               max_records |-> NoCap,
               mrc |-> mrc,
               all_subdivisions |-> all_subdivisions,
               flags |-> [a \in 1..NumAreas |-> a = at /\ flag]] :
                 at \in 1..NumAreas, long \in LongWindows, mrc \in MrcValues,
                 all_subdivisions \in BOOLEAN, flag \in BOOLEAN}

QInit ==
    /\ cfg \in Runs
    /\ pc = "main"
    /\ area = 1
    /\ qf = NoFrame
    /\ ret = NoResult
    /\ sub = NoSub
    /\ combined_features = <<>>
    /\ seen_keys = {}
    /\ exceeded = FALSE
    /\ result = NoResult
    /\ error = NoError
    /\ requests = <<>>
    /\ arrivals = <<>>
    /\ regionResults = <<>>

\* main, lines 523-544: the next area is queried
MainQueryArea ==
    /\ pc = "main"
    /\ area <= NumAreas
    /\ qf' = IF cfg.all_subdivisions
             THEN NewFrame("discover", BaseWhere, NoCap)
             ELSE NewFrame("main", BaseWhere, cfg.max_records)
    /\ sub' = IF cfg.all_subdivisions THEN [NoSub EXCEPT !.caller = "main"] ELSE NoSub
    /\ pc' = "query"
    /\ UNCHANGED <<ovars, pvars, cfg, area, ret, combined_features, seen_keys, exceeded, result,
                   error, requests, arrivals, regionResults>>

\* the branch of query_features taken on a cap: the list is cut and the flag
\* tells whether the last page was full
CapReached(max_records, collected) ==
    max_records # NoCap /\ Len(collected) >= max_records[1]

TruncatedAtCap(features, page_size) == Len(features) = page_size

\* mutant: a full page ends the paging too
ShortPageOrFull(features, page_size) == features = <<>> \/ Len(features) <= page_size

\* the branch taken on an empty or short page
ShortPage(features, page_size) == features = <<>> \/ Len(features) < page_size

\* mutant: the offset moves on by one row, whatever the size of the page
NextOffsetByOne(offset, page_size) == offset + 1

\* mutant: the next page starts one row beyond the end of the last one
NextOffsetSkipsRow(offset, page_size) == offset + page_size + 1

\* query_features, line 234: offset += page_size
NextOffset(offset, page_size) == offset + page_size

\* one iteration of query_features' loop: the request, its page, the exits
QueryPage ==
    /\ pc = "query"
    /\ \E features \in ServerPages(FilterRows(AreaRows(area), qf.where), qf.offset,
                                   qf.page_size) :
         LET flag == cfg.flags[area]
             collected == qf.collected \o features
             pages == Append(qf.pages, Len(features))
             done(fs, trunc) ==
                 [by |-> "query_features", features |-> fs, truncated |-> trunc,
                  pages |-> pages, page_size |-> qf.page_size,
                  max_records |-> qf.max_records, flag |-> flag,
                  parts |-> <<>>, count |-> Len(collected),
                  full |-> \E i \in 1..Len(pages) : pages[i] = qf.page_size,
                  clipped |-> Len(fs) < Len(collected)]
         IN  /\ requests' = Append(requests,
                                   [area |-> area, where |-> qf.where,
                                    offset |-> qf.offset, count |-> qf.page_size])
             /\ IF CapReached(qf.max_records, collected)
                THEN /\ ret' = done(Prefix(collected, qf.max_records[1]),
                                    TruncatedAtCap(features, qf.page_size))
                     /\ pc' = "returned"
                     /\ qf' = [qf EXCEPT !.collected = <<>>, !.pages = <<>>, !.offset = 0]
                ELSE IF ShortPage(features, qf.page_size)
                THEN /\ ret' = done(collected, flag)
                     /\ pc' = "returned"
                     /\ qf' = [qf EXCEPT !.collected = <<>>, !.pages = <<>>, !.offset = 0]
                ELSE /\ qf' = [qf EXCEPT !.offset = NextOffset(@, qf.page_size),
                                         !.collected = collected,
                                         !.pages = pages]
                     /\ pc' = "query"
                     /\ ret' = ret
    /\ UNCHANGED <<ovars, pvars, cfg, area, sub, combined_features, seen_keys, exceeded, result,
                   error, arrivals, regionResults>>

\* mutant: the failure is swallowed and the pages collected so far are returned
QueryFailSwallowed ==
    /\ pc = "query"
    /\ error' = [kind |-> "transport", message |-> <<>>, payload |-> <<>>]
    /\ requests' = Append(requests,
                          [area |-> area, where |-> qf.where,
                           offset |-> qf.offset, count |-> qf.page_size])
    /\ ret' = [by |-> "query_features", features |-> qf.collected,
               truncated |-> FALSE, pages |-> qf.pages, page_size |-> qf.page_size,
               max_records |-> qf.max_records, flag |-> FALSE, parts |-> <<>>,
               count |-> Len(qf.collected), full |-> FALSE, clipped |-> FALSE]
    /\ pc' = "returned"
    /\ UNCHANGED <<ovars, pvars, cfg, area, qf, sub, combined_features, seen_keys, exceeded,
                   result, arrivals, regionResults>>

\* a page request fails: urlopen raises, or GIS.request raises ArcGISError for
\* an error payload; nothing catches it before main's handler, which exits 1
QueryFail ==
    /\ pc = "query"
    /\ \E e \in {[kind |-> "transport", message |-> <<>>, payload |-> <<>>]}
                \cup {[kind |-> "ArcGISError", message |-> JsonDumpsSorted(p),
                       payload |-> p] : p \in ErrorPayloads} :
         error' = e
    /\ requests' = Append(requests,
                          [area |-> area, where |-> qf.where,
                           offset |-> qf.offset, count |-> qf.page_size])
    /\ pc' = "exit1"
    /\ qf' = NoFrame
    /\ sub' = NoSub
    /\ UNCHANGED <<ovars, pvars, cfg, area, ret, combined_features, seen_keys, exceeded, result,
                   arrivals, regionResults>>

\* _query_all_subdivisions, line 689: the concatenation is cut on a cap
SubCapHit(max_records, n) == max_records # NoCap /\ n > max_records[1]

\* main, line 551: the merged list is cut on a (truthy) cap
GlobalCapHit(max_records, n) ==
    max_records # NoCap /\ max_records[1] # 0 /\ n >= max_records[1]

\* _query_all_subdivisions, lines 656-683: the discovery query returned; the
\* filters are built and the first sub-query (or the plain query) starts
CollectFiltersReturn ==
    /\ pc = "returned"
    /\ qf.caller = "discover"
    /\ LET filters == _collect_subdivision_filters(ret.features)
       IN  IF filters = <<>>
           THEN /\ qf' = NewFrame(sub.caller, BaseWhere, cfg.max_records)
                /\ sub' = NoSub
           ELSE /\ qf' = NewFrame("sub", _combine_where(BaseWhere, filters[1].clause),
                                  NoCap)
                /\ sub' = [caller |-> sub.caller, filters |-> filters, idx |-> 1,
                           aggregated |-> <<>>, exceeded |-> FALSE, parts |-> <<>>,
                           full |-> FALSE]
    /\ pc' = "query"
    /\ UNCHANGED <<ovars, pvars, cfg, area, ret, combined_features, seen_keys, exceeded, result,
                   error, requests, arrivals, regionResults>>

\* _query_all_subdivisions, lines 684-696: a sub-query returned; its features
\* are concatenated, then the next sub-query starts or the function returns
SubdivisionReturn ==
    /\ pc = "returned"
    /\ qf.caller = "sub"
    /\ LET aggregated == sub.aggregated \o ret.features
           exc == sub.exceeded \/ ret.truncated
           parts == Append(sub.parts, ret.truncated)
           full == sub.full \/ ret.full
       IN  IF sub.idx < Len(sub.filters)
           THEN /\ sub' = [sub EXCEPT !.idx = @ + 1, !.aggregated = aggregated,
                                      !.exceeded = exc, !.parts = parts,
                                      !.full = full]
                /\ qf' = NewFrame("sub",
                                  _combine_where(BaseWhere,
                                                 sub.filters[sub.idx + 1].clause),
                                  NoCap)
                /\ pc' = "query"
                /\ ret' = ret
           ELSE /\ sub' = [sub EXCEPT !.aggregated = <<>>, !.exceeded = FALSE,
                                      !.parts = <<>>, !.full = FALSE]
                /\ qf' = [qf EXCEPT !.caller = sub.caller]
                /\ pc' = "returned"
                /\ ret' = [by |-> "_query_all_subdivisions",
                           features |->
                               IF SubCapHit(cfg.max_records, Len(aggregated))
                               THEN Prefix(aggregated, cfg.max_records[1])
                               ELSE aggregated,
                           truncated |->
                               IF SubCapHit(cfg.max_records, Len(aggregated))
                               THEN TRUE ELSE exc,
                           pages |-> <<>>, page_size |-> 0,
                           max_records |-> cfg.max_records, flag |-> FALSE,
                           parts |-> parts, count |-> Len(aggregated),
                           full |-> full,
                           clipped |->
                               /\ SubCapHit(cfg.max_records, Len(aggregated))
                               /\ Len(Prefix(aggregated, cfg.max_records[1]))
                                     < Len(aggregated)]
    /\ UNCHANGED <<ovars, pvars, cfg, area, combined_features, seen_keys, exceeded, result,
                   error, requests, arrivals, regionResults>>

\* main, lines 547-559: the area's result is merged; on the cap, or after the
\* last area, the loop ends and the merged QueryResult is built
MainMerge ==
    /\ pc = "returned"
    /\ qf.caller = "main"
    /\ LET merged == _append_unique_features(combined_features, seen_keys, ret.features)
           exc == exceeded \/ ret.truncated
           hit == GlobalCapHit(cfg.max_records, Len(merged.accumulator))
           features == IF hit THEN Prefix(merged.accumulator, cfg.max_records[1])
                       ELSE merged.accumulator
           flags == Append(regionResults, ret)
       IN  /\ seen_keys' = merged.seen
           /\ combined_features' = features
           /\ exceeded' = (hit \/ exc)
           /\ arrivals' = arrivals \o ret.features
           /\ regionResults' = flags
           /\ IF hit \/ area = NumAreas
              THEN /\ pc' = "done"
                   /\ area' = area
                   /\ result' = [by |-> "main", features |-> features,
                                 truncated |-> (hit \/ exc),
                                 pages |-> <<>>, page_size |-> 0,
                                 max_records |-> cfg.max_records, flag |-> FALSE,
                                 parts |-> [i \in 1..Len(flags) |-> flags[i].truncated],
                                 count |-> Len(merged.accumulator),
                                 full |-> \E i \in 1..Len(flags) : flags[i].full,
                                 clipped |->
                                     \/ Len(features) < Len(merged.accumulator)
                                     \/ \E i \in 1..Len(flags) : flags[i].clipped]
              ELSE /\ pc' = "main"
                   /\ area' = area + 1
                   /\ result' = result
    /\ qf' = NoFrame
    /\ UNCHANGED <<ovars, pvars, cfg, ret, sub, error, requests>>

QNext ==
    \/ MainQueryArea
    \/ QueryPage
    \/ QueryFail
    \/ CollectFiltersReturn
    \/ SubdivisionReturn
    \/ MainMerge

\* no window is open
NoWindow == <<>>

\* no text or table function is run on its own
PIdle ==
    /\ ppc = "idle"
    /\ input = <<>>
    /\ output = <<>>
    /\ gui = NoWindow

\* the query part at rest, while the owner table is built
QIdle ==
    /\ cfg = [areas |-> [a \in 1..NumAreas |-> {}], max_records |-> NoCap,
              mrc |-> 0, all_subdivisions |-> FALSE,
              flags |-> [a \in 1..NumAreas |-> FALSE]]
    /\ pc = "idle"
    /\ area = 1
    /\ qf = NoFrame
    /\ ret = NoResult
    /\ sub = NoSub
    /\ combined_features = <<>>
    /\ seen_keys = {}
    /\ exceeded = FALSE
    /\ result = NoResult
    /\ error = NoError
    /\ requests = <<>>
    /\ arrivals = <<>>
    /\ regionResults = <<>>

\* ------------------------------------------------------------------------
\* Owner registry and workbook: the --owner-table branch of main
\* ------------------------------------------------------------------------

DigitChars == <<"0", "1", "2", "3", "4", "5", "6", "7", "8", "9">>

\* the decimal digits of a natural number, as format() writes them
RECURSIVE Decimal(_)
Decimal(n) ==
    IF n < 10 THEN <<DigitChars[n + 1]>>
    ELSE Decimal(n \div 10) \o <<DigitChars[(n % 10) + 1]>>

Zeros(n) == [i \in 1..n |-> "0"]

\* the zero padding of the format specifications 04d and 012.4f
ZeroPad(digits, width) ==
    IF Len(digits) >= width THEN digits ELSE Zeros(width - Len(digits)) \o digits

\* mutant: the id is numbered from the row index, not from the registry size
OwnerIdOfRow(n) == <<"O", "W", "N">> \o ZeroPad(Decimal(idx + 1), OwnerIdWidth)

\* f"OWN{n:04d}" of _build_owner_registry
OwnerId(n) == <<"O", "W", "N">> \o ZeroPad(Decimal(n), OwnerIdWidth)

\* an empty cell, a cell reference such as 'By Owner'!B2 (kind "ref"), or a
\* HYPERLINK formula to a sheet of the Google document (kind "hyperlink";
\* target is then the gid of the sheet, text the text shown)
NoLink == [kind |-> "none", target |-> "", col |-> "", row |-> 0, text |-> <<>>]

\* the rows _format_owner_table may hand over: "Owner Link" is always there
\* and empty; names differ in case, in surrounding blanks, and in the part
\* of the name a word stands in
OwnerRow(company, first, middle, last, suffix, name, unit, schedule) ==
    [company |-> company, first |-> first, middle |-> middle, last |-> last,
     suffix |-> suffix, name |-> name, complex |-> <<"c">>, unit |-> unit,
     schedule |-> schedule, owner_link |-> NoLink]

RowPool ==
    { OwnerRow(<<>>, <<"J">>, <<>>, <<"B">>, <<>>, <<"J", " ", "B">>, <<"u">>, <<"s">>),
      OwnerRow(<<>>, <<" ", "j">>, <<>>, <<"b", " ">>, <<>>, <<"j", " ", "b">>, <<>>, <<"s">>),
      OwnerRow(<<>>, <<"J">>, <<"B">>, <<>>, <<>>, <<" ">>, <<>>, <<>>),
      OwnerRow(<<>>, <<"J">>, <<>>, <<"B">>, <<"J">>, <<>>, <<"u">>, <<>>),
      OwnerRow(<<"A", " ">>, <<>>, <<>>, <<>>, <<>>, <<"A">>, <<"u">>, <<"s">>),
      OwnerRow(<<"a">>, <<>>, <<>>, <<>>, <<>>, <<"a">>, <<>>, <<"s">>) }

RowSeqs == UNION {[1..n -> RowPool] : n \in 0..MaxRows}

\* mutant: the key is the words of the name, whatever part they stand in
OwnerKeyJoined(row) ==
    <<Upper(Strip(row.company)) \o Upper(Strip(row.first)) \o Upper(Strip(row.middle))
        \o Upper(Strip(row.last)) \o Upper(Strip(row.suffix))>>

\* _owner_key
_owner_key(row) ==
    <<Upper(Strip(row.company)), Upper(Strip(row.first)), Upper(Strip(row.middle)),
      Upper(Strip(row.last)), Upper(Strip(row.suffix))>>

OInit ==
    /\ ocfg \in [link_ids : BOOLEAN, excel_output : BOOLEAN]
    /\ rows \in RowSeqs
    /\ opc = "build"
    /\ idx = 0
    /\ owners = <<>>
    /\ property_to_owner = <<>>
    /\ lookup = <<>>
    /\ ws_complex = <<>>
    /\ ws_owner = <<>>

\* the owner part at rest, while the queries run
OIdle ==
    /\ ocfg = [link_ids |-> FALSE, excel_output |-> FALSE]
    /\ rows = <<>>
    /\ opc = "idle"
    /\ idx = 0
    /\ owners = <<>>
    /\ property_to_owner = <<>>
    /\ lookup = <<>>
    /\ ws_complex = <<>>
    /\ ws_owner = <<>>

\* mutant: a row is attached to its record only when the row creates the record
BuildOwnerRowNewOnly ==
    /\ opc = "build"
    /\ idx < Len(rows)
    /\ LET row == rows[idx + 1]
           key == _owner_key(row)
           unseen == key \notin DOMAIN lookup
           pos == IF unseen THEN Len(owners) + 1 ELSE lookup[key]
           owner_entry ==
               [owner_id |-> OwnerId(Len(owners) + 1),
                first |-> row.first, middle |-> row.middle, last |-> row.last,
                suffix |-> row.suffix, company |-> row.company, name |-> row.name,
                properties |-> <<>>, display_name |-> <<>>, excel_row |-> NoRow,
                owner_url |-> NoLink]
           withEntry == IF unseen THEN Append(owners, owner_entry) ELSE owners
           prop == [row_index |-> idx, complex |-> row.complex, unit |-> row.unit,
                    schedule |-> row.schedule, owner_row |-> NoRow,
                    owner_url |-> NoLink, complex_row |-> NoRow,
                    complex_url |-> NoLink, link_label |-> <<>>]
       IN  /\ owners' = IF unseen
                      THEN [withEntry EXCEPT ![pos].properties = Append(@, prop)]
                      ELSE owners
           /\ lookup' = IF unseen
                        THEN [k \in DOMAIN lookup \cup {key} |->
                                 IF k = key THEN pos ELSE lookup[k]]
                        ELSE lookup
           /\ property_to_owner' = [i \in 0..idx |->
                                       IF i = idx THEN pos ELSE property_to_owner[i]]
    /\ idx' = idx + 1
    /\ UNCHANGED <<qvars, pvars, ocfg, rows, opc, ws_complex, ws_owner>>

\* _build_owner_registry, lines 1019-1052: one pass of the loop over the rows
BuildOwnerRow ==
    /\ opc = "build"
    /\ idx < Len(rows)
    /\ LET row == rows[idx + 1]
           key == _owner_key(row)
           unseen == key \notin DOMAIN lookup
           pos == IF unseen THEN Len(owners) + 1 ELSE lookup[key]
           owner_entry ==
               [owner_id |-> OwnerId(Len(owners) + 1),
                first |-> row.first, middle |-> row.middle, last |-> row.last,
                suffix |-> row.suffix, company |-> row.company, name |-> row.name,
                properties |-> <<>>, display_name |-> <<>>, excel_row |-> NoRow,
                owner_url |-> NoLink]
           withEntry == IF unseen THEN Append(owners, owner_entry) ELSE owners
           prop == [row_index |-> idx, complex |-> row.complex, unit |-> row.unit,
                    schedule |-> row.schedule, owner_row |-> NoRow,
                    owner_url |-> NoLink, complex_row |-> NoRow,
                    complex_url |-> NoLink, link_label |-> <<>>]
       IN  /\ owners' = [withEntry EXCEPT ![pos].properties = Append(@, prop)]
           /\ lookup' = IF unseen
                        THEN [k \in DOMAIN lookup \cup {key} |->
                                 IF k = key THEN pos ELSE lookup[k]]
                        ELSE lookup
           /\ property_to_owner' = [i \in 0..idx |->
                                       IF i = idx THEN pos ELSE property_to_owner[i]]
    /\ idx' = idx + 1
    /\ UNCHANGED <<qvars, pvars, ocfg, rows, opc, ws_complex, ws_owner>>

\* _build_owner_registry, lines 1054-1058: the display names, and no sheet row yet
BuildOwnerFinish ==
    /\ opc = "build"
    /\ idx = Len(rows)
    /\ owners' = [k \in 1..Len(owners) |->
                     [owners[k] EXCEPT
                         !.display_name = IF Strip(owners[k].name) # <<>>
                                          THEN Strip(owners[k].name)
                                          ELSE owners[k].owner_id,
                         !.excel_row = NoRow]]
    /\ opc' = "built"
    /\ UNCHANGED <<qvars, pvars, ocfg, rows, idx, property_to_owner, lookup, ws_complex,
                   ws_owner>>

\* " ".join(part for part in parts if part)
RECURSIVE JoinNonEmpty(_)
JoinNonEmpty(parts) ==
    IF parts = <<>> THEN <<>>
    ELSE LET rest == JoinNonEmpty(Tail(parts))
         IN  IF Head(parts) = <<>> THEN rest
             ELSE IF rest = <<>> THEN Head(parts)
             ELSE Head(parts) \o <<" ">> \o rest

\* _apply_hyperlink_urls, lines 1087-1091: the text shown for a property
LinkLabel(prop) ==
    LET label_parts == <<prop.complex, prop.unit>>
                         \o (IF prop.unit = <<>> /\ prop.schedule # <<>>
                             THEN <<prop.schedule>> ELSE <<>>)
        label == Strip(JoinNonEmpty(label_parts))
    IN  IF label # <<>> THEN label ELSE prop.complex

\* mutant: the sheet row is the row index plus the header row only
ComplexRowAfterHeader(row_index) == row_index + 1

\* _apply_hyperlink_urls, line 1078: the "By Complex" row of a row index
ComplexRow(row_index) == row_index + 2

\* mutant: every owner takes one sheet row
NextOwnerRowByOne(current_row, owner) == current_row + 1

\* _apply_hyperlink_urls, line 1098: an owner takes one row for each property
NextOwnerRow(current_row, owner) == current_row + Len(owner.properties)

\* _apply_hyperlink_urls, lines 1070-1098: the owners from position k on, the
\* first of them laid out at current_row; gives the rows and the owners
RECURSIVE ApplyLoop(_, _, _, _)
ApplyLoop(rws, ownrs, k, current_row) ==
    IF k > Len(ownrs) THEN [rows |-> rws, owners |-> ownrs]
    ELSE LET owner == ownrs[k]
             owner_url == [kind |-> "hyperlink", target |-> "owner_gid", col |-> "B",
                           row |-> current_row, text |-> <<>>]
             props == [p \in 1..Len(owner.properties) |->
                          [owner.properties[p] EXCEPT
                              !.owner_row = current_row,
                              !.owner_url = owner_url,
                              !.complex_row = ComplexRow(owner.properties[p].row_index),
                              !.complex_url =
                                  [kind |-> "hyperlink", target |-> "complex_gid",
                                   col |-> "A",
                                   row |-> ComplexRow(owner.properties[p].row_index),
                                   text |-> <<>>],
                              !.link_label = LinkLabel(owner.properties[p])]]
             mine == {owner.properties[p].row_index + 1 : p \in 1..Len(owner.properties)}
             linked == [i \in 1..Len(rws) |->
                           IF i \in mine
                           THEN [rws[i] EXCEPT
                                    !.owner_link = [owner_url EXCEPT
                                                       !.text = owner.owner_id]]
                           ELSE rws[i]]
         IN  ApplyLoop(linked,
                       [ownrs EXCEPT ![k] = [owner EXCEPT !.excel_row = current_row,
                                                          !.owner_url = owner_url,
                                                          !.properties = props]],
                       k + 1, NextOwnerRow(current_row, owner))

\* _apply_hyperlink_urls
_apply_hyperlink_urls(rws, ownrs) == ApplyLoop(rws, ownrs, 1, FirstDataRow)

\* main, lines 614-622: the links are computed when the document id and both
\* gids are set
ApplyHyperlinkUrls ==
    /\ opc = "built"
    /\ ocfg.link_ids
    /\ LET applied == _apply_hyperlink_urls(rows, owners)
       IN  /\ rows' = applied.rows
           /\ owners' = applied.owners
    /\ opc' = "linked"
    /\ UNCHANGED <<qvars, pvars, ocfg, idx, property_to_owner, lookup, ws_complex, ws_owner>>

\* mutant: the double quotes of the label are left as they are
ExcelQuotesLeftSingle(label) == label

\* _excel_escape: a double quote is doubled
RECURSIVE _excel_escape(_)
_excel_escape(label) ==
    IF label = <<>> THEN <<>>
    ELSE (IF Head(label) = "\"" THEN <<"\"", "\"">> ELSE <<Head(label)>>)
           \o _excel_escape(Tail(label))

\* _write_excel_workbook, lines 1192-1196: the owners from position k on are
\* laid out from row_counter
RECURSIVE FallbackLoop(_, _, _)
FallbackLoop(ownrs, k, row_counter) ==
    IF k > Len(ownrs) THEN ownrs
    ELSE FallbackLoop([ownrs EXCEPT ![k].excel_row = row_counter], k + 1,
                      row_counter + Len(ownrs[k].properties))

\* _write_excel_workbook, lines 1191-1196: the layout is computed here when
\* some owner has no sheet row yet
FallbackLayout(ownrs) ==
    IF \E k \in 1..Len(ownrs) : ownrs[k].excel_row = NoRow
    THEN FallbackLoop(ownrs, 1, FirstDataRow)
    ELSE ownrs

\* a row of "By Complex": source is the index of the OwnerRow whose values
\* fill the row, link_base the "Owner Link" column among those values,
\* owner_id and link the two columns added
ComplexHeader == [kind |-> "header", source |-> -1, owner_id |-> <<>>,
                  link_base |-> NoLink, link |-> NoLink]

EmptyComplexRow == [ComplexHeader EXCEPT !.kind = "empty"]

\* a row of "By Owner": row_index, complex, unit and schedule are the
\* property's, link is "Complex Sheet Link"
OwnerHeader == [kind |-> "header", owner_id |-> <<>>, name |-> <<>>,
                prop_index |-> 0, row_index |-> -1, complex |-> <<>>,
                unit |-> <<>>, schedule |-> <<>>, link |-> NoLink]

EmptyOwnerRow == [OwnerHeader EXCEPT !.kind = "empty"]

\* Worksheet.cell(row=r): the sheet grows to row r when r is beyond its end
RECURSIVE Pad(_, _, _)
Pad(ws, r, empty) == IF Len(ws) >= r THEN ws ELSE Pad(Append(ws, empty), r, empty)

\* _write_excel_workbook, lines 1205-1206: property_row_numbers[idx]
PropertyRowNumber(i) == i + 2

\* _write_excel_workbook, lines 1203-1222: the rows from index i on
RECURSIVE ComplexLoop(_, _, _, _)
ComplexLoop(ws, rws, ownrs, i) ==
    IF i >= Len(rws) THEN ws
    ELSE LET owner_entry == ownrs[property_to_owner[i]]
             excel_row == PropertyRowNumber(i)
             owner_ref_default == [kind |-> "ref", target |-> "By Owner", col |-> "B",
                                   row |-> owner_entry.excel_row, text |-> <<>>]
             owner_link_value == IF rws[i + 1].owner_link # NoLink
                                 THEN rws[i + 1].owner_link
                                 ELSE owner_ref_default
             appended == Append(ws, [kind |-> "data", source |-> i,
                                     owner_id |-> owner_entry.owner_id,
                                     link_base |-> rws[i + 1].owner_link,
                                     link |-> owner_link_value])
         IN  ComplexLoop([Pad(appended, excel_row, EmptyComplexRow) EXCEPT
                             ![excel_row].link = owner_link_value,
                             ![excel_row].link_base = owner_link_value],
                         rws, ownrs, i + 1)

\* _write_excel_workbook, lines 1250-1298: the properties from p on of the
\* owner at position k, then the later owners
RECURSIVE OwnerLoop(_, _, _, _, _)
OwnerLoop(ws, ownrs, k, p, current_row) ==
    IF k > Len(ownrs) THEN ws
    ELSE IF p > Len(ownrs[k].properties) THEN OwnerLoop(ws, ownrs, k + 1, 1, current_row)
    ELSE LET owner == ownrs[k]
             prop == owner.properties[p]
             excel_row == current_row
             link_row == PropertyRowNumber(prop.row_index)
             complex_ref == [kind |-> "ref", target |-> "By Complex", col |-> "A",
                             row |-> link_row, text |-> <<>>]
             complex_formula == IF prop.complex_url # NoLink
                                THEN [prop.complex_url EXCEPT
                                         !.text = _excel_escape(prop.link_label)]
                                ELSE complex_ref
             appended == Append(ws, [kind |-> "data", owner_id |-> owner.owner_id,
                                     name |-> owner.name, prop_index |-> p,
                                     row_index |-> prop.row_index,
                                     complex |-> prop.complex, unit |-> prop.unit,
                                     schedule |-> prop.schedule,
                                     link |-> complex_formula])
         IN  OwnerLoop([Pad(appended, excel_row, EmptyOwnerRow) EXCEPT
                           ![excel_row].link = complex_formula],
                       ownrs, k, p + 1, current_row + 1)

\* main, lines 625-634, and _write_excel_workbook: without rows it raises,
\* else it lays the owners out where that is not done and writes both sheets
\* (the sheet of notes, "Instructions", holds no row of either and is left out)
WriteExcelWorkbook ==
    /\ opc = "linked" \/ (opc = "built" /\ ~ocfg.link_ids)
    /\ ocfg.excel_output
    /\ IF rows = <<>>
       THEN /\ opc' = "raised"
            /\ UNCHANGED <<owners, ws_complex, ws_owner>>
       ELSE LET laid == FallbackLayout(owners)
            IN  /\ owners' = laid
                /\ ws_complex' = [ComplexLoop(<<ComplexHeader>>, rows, laid, 0)
                                     EXCEPT ![1] = ComplexHeader]
                /\ ws_owner' = [OwnerLoop(<<OwnerHeader>>, laid, 1, 1, FirstDataRow)
                                   EXCEPT ![1] = OwnerHeader]
                /\ opc' = "written"
    /\ UNCHANGED <<qvars, pvars, ocfg, rows, idx, property_to_owner, lookup>>

ONext ==
    \/ BuildOwnerRow
    \/ BuildOwnerFinish
    \/ ApplyHyperlinkUrls
    \/ WriteExcelWorkbook

\* one run of main's query and aggregation
Init == QInit /\ OIdle /\ PIdle

Spec == Init /\ [][QNext]_vars

\* one run of main's owner-table branch
InitOwner == OInit /\ QIdle /\ PIdle

SpecOwner == InitOwner /\ [][ONext]_vars

\* ------------------------------------------------------------------------
\* Properties of the query aggregation
\* ------------------------------------------------------------------------

RECURSIVE Sum(_)
Sum(ns) == IF ns = <<>> THEN 0 ELSE Head(ns) + Sum(Tail(ns))

\* the identity key of the data model: schedule number, parcel id, object id
IdentityKey(f) == <<f.sched, f.parcel, f.oid>>

KeysOf(features) == {IdentityKey(features[i]) : i \in 1..Len(features)}

\* a QueryResult of query_features has just been returned
QueryReturned == pc = "returned" /\ ret.by = "query_features"

\* C1: query_features without a cap, against a catalog that serves full pages
\* and then a short page without the truncation flag, returns every matching
\* feature of the area once, in catalog (page) order, with truncated = FALSE.
C1_PaginationComplete ==
    (QueryReturned /\ ret.max_records = NoCap /\ ~ret.flag)
        => /\ ret.features = FilterRows(AreaRows(area), qf.where)
           /\ ret.truncated = FALSE
           /\ \A i \in 1..(Len(ret.pages) - 1) : ret.pages[i] = ret.page_size
           /\ ret.pages[Len(ret.pages)] < ret.page_size

\* C1 witness: a call without a cap that took two full pages and then a
\* short, non-empty page
C1_Witness ==
    /\ QueryReturned /\ ret.max_records = NoCap /\ ~ret.flag
    /\ Len(ret.pages) = 3 /\ ret.pages[3] > 0 /\ ret.pages[3] < ret.page_size
    /\ ret.page_size = DefaultMaxRecordCount
    /\ Len(ret.features) = 2 * DefaultMaxRecordCount + ret.pages[3]

\* the rows the given areas hold, and whether their identity keys are distinct
AllAreaRows == {Layer[i] : i \in UNION {cfg.areas[a] : a \in 1..NumAreas}}

DistinctKeys(S) == \A f \in S, g \in S : f # g => IdentityKey(f) # IdentityKey(g)

\* C2 (as claimed): with a cap, of no record or more, below the number of
\* matching features, whose identity keys are pairwise distinct, the merged
\* result holds exactly max_records features and is truncated.
C2_CapTruncation ==
    (pc = "done" /\ cfg.max_records # NoCap /\ DistinctKeys(AllAreaRows)
       /\ cfg.max_records[1] >= 0
       /\ cfg.max_records[1] < Cardinality(AllAreaRows))
        => /\ Len(result.features) = cfg.max_records[1]
           /\ result.truncated = TRUE

\* C2 restricted to the per-region loop without --all-subdivisions
C2_RegionModeOnly == cfg.all_subdivisions \/ C2_CapTruncation

\* C3: without a cap, the merged list is as long as the number of distinct
\* identity keys among the features of the areas' results.
C3_DedupUnion ==
    (pc = "done" /\ cfg.max_records = NoCap)
        => Len(result.features)
             = Cardinality(UNION {KeysOf(regionResults[i].features) :
                                    i \in 1..Len(regionResults)})

\* C3 witness: two results that share an identity key were merged
C3_Witness ==
    /\ pc = "done" /\ cfg.max_records = NoCap /\ Len(regionResults) = 2
    /\ KeysOf(regionResults[1].features) \cap KeysOf(regionResults[2].features) # {}
    /\ Len(result.features)
         < Len(regionResults[1].features) + Len(regionResults[2].features)
    /\ Len(result.features) = 2

\* the features of a sequence whose key neither an earlier feature of it has
\* nor is among the keys given, in order, and the keys met
RECURSIVE FirstOccurrences(_, _)
FirstOccurrences(features, keys) ==
    IF features = <<>> THEN [first |-> <<>>, keys |-> keys]
    ELSE IF Len(features) = 1
    THEN [first |-> IF IdentityKey(features[1]) \in keys THEN <<>> ELSE features,
          keys |-> keys \cup {IdentityKey(features[1])}]
    ELSE LET half == Len(features) \div 2
             Both(left) ==
                 LET With(right) == [first |-> left.first \o right.first,
                                     keys |-> right.keys]
                 IN  With(FirstOccurrences(SubSeq(features, half + 1, Len(features)),
                                           left.keys))
         IN  Both(FirstOccurrences(SubSeq(features, 1, half), keys))

\* C4: the accumulator never holds two features with one identity key; it
\* holds, in arrival order, the first feature that arrived with each key
\* (up to the cut main makes on its cap) and a later duplicate changes nothing.
\* Stated where main's loop stands between two areas or has ended: the
\* accumulator changes nowhere else.
C4_FirstOccurrenceWins ==
    LET first == FirstOccurrences(arrivals, {}).first
        n == Len(combined_features)
    IN  pc \in {"main", "done"} =>
        /\ Cardinality(KeysOf(combined_features)) = n
        /\ n <= Len(first)
        /\ combined_features = SubSeq(first, 1, n)
        /\ (cfg.max_records \in {NoCap, <<0>>} \/ Len(first) < cfg.max_records[1])
               => combined_features = first
        /\ seen_keys = KeysOf(arrivals)

\* C4 witness: a later feature with a key already seen, but other attributes,
\* was dropped
C4_Witness ==
    /\ Len(arrivals) > Len(combined_features)
    /\ \E i \in 1..Len(combined_features), j \in 1..Len(arrivals) :
          /\ IdentityKey(arrivals[j]) = IdentityKey(combined_features[i])
          /\ arrivals[j] # combined_features[i]
    /\ Len(combined_features) = 2

\* a QueryResult was just produced by query_features or by
\* _query_all_subdivisions (in ret), or by main's merge (in result)
Produced(r) ==
    \/ pc = "returned" /\ r = ret
    \/ pc = "done" /\ r = result

\* C5 (as claimed), for the results no page of which held exactly page_size
\* features, on a catalog that never sets exceededTransferLimit itself and
\* with no cap or a cap of no record or more: of the causes the claim names
\* the cut by a record limit is left, and truncated holds exactly when a
\* record limit has cut features off the accumulated list.
C5_TruncatedIffClipped ==
    \A r \in {ret, result} :
        (/\ Produced(r)
         /\ ~r.full
         /\ \A a \in 1..NumAreas : ~cfg.flags[a]
         /\ cfg.max_records = NoCap \/ cfg.max_records[1] >= 0)
            => (r.truncated <=> r.clipped)

\* C6: when a page request fails, query_features returns nothing, the run
\* ends in main's handler without a merged result, nothing more happens, and
\* an ArcGISError carries every key and value of the remote error object.
C6_FailureAborts ==
    /\ [](error # NoError =>
            /\ pc = "exit1"
            /\ result = NoResult
            /\ error.kind = "ArcGISError" =>
                 /\ Len(error.message) = Len(error.payload)
                 /\ {error.message[i] : i \in 1..Len(error.message)}
                      = {error.payload[i] : i \in 1..Len(error.payload)})
    /\ [][/\ error' # NoError => (pc' = "exit1" /\ ret' = ret /\ result' = NoResult)
          /\ pc = "exit1" => UNCHANGED qvars]_vars

\* C6 witness: a remote error payload arrived on the second page of a call
\* after an earlier area had been fetched and merged
C6_Witness ==
    /\ pc = "exit1" /\ error.kind = "ArcGISError"
    /\ regionResults # <<>> /\ combined_features # <<>>
    /\ requests[Len(requests)].offset > 0

\* ------------------------------------------------------------------------
\* Properties of the owner registry and the workbook
\* ------------------------------------------------------------------------

\* the identity of an owner: company, first, middle, last and suffix, each
\* trimmed and upper-cased
IdentityOf(r) ==
    [company |-> Upper(Strip(r.company)), first |-> Upper(Strip(r.first)),
     middle |-> Upper(Strip(r.middle)), last |-> Upper(Strip(r.last)),
     suffix |-> Upper(Strip(r.suffix))]

\* the indexes of the rows the registry has taken in
Processed == 0..(idx - 1)

\* C7: the registry holds exactly one OwnerRecord for each distinct identity
\* among the rows taken in; two rows are attached to the same record exactly
\* when their identities are equal, and a record's property references are
\* the rows of its identity, in row order.
C7_OneRecordPerIdentity ==
    /\ Len(owners) = Cardinality({IdentityOf(rows[i + 1]) : i \in Processed})
    /\ \A i \in Processed, j \in Processed :
           (IdentityOf(rows[i + 1]) = IdentityOf(rows[j + 1]))
               <=> (property_to_owner[i] = property_to_owner[j])
    /\ \A k \in 1..Len(owners) :
           LET refs == owners[k].properties
           IN  /\ {refs[p].row_index : p \in 1..Len(refs)}
                    = {i \in Processed : property_to_owner[i] = k}
               /\ \A p \in 1..Len(refs), q \in 1..Len(refs) :
                      p < q => refs[p].row_index < refs[q].row_index
               /\ IdentityOf(owners[k]) = IdentityOf(rows[refs[1].row_index + 1])

\* C22: the property lists of the records partition the row indices taken
\* in: every index is in one list, once; the indices of a list ascend;
\* property_to_owner gives the record whose list holds the index; no record
\* is without a property reference, and the references are as many as the rows
C22_PropertiesPartitionRows ==
    LET Holders(i) == {kp \in {<<k, p>> : k \in 1..Len(owners), p \in 1..Len(rows)} :
                          /\ kp[2] <= Len(owners[kp[1]].properties)
                          /\ owners[kp[1]].properties[kp[2]].row_index = i}
        RECURSIVE References(_)
        References(k) == IF k = 0 THEN 0
                         ELSE Len(owners[k].properties) + References(k - 1)
    IN  /\ \A i \in Processed :
              /\ Cardinality(Holders(i)) = 1
              /\ \A kp \in Holders(i) : property_to_owner[i] = kp[1]
        /\ DOMAIN property_to_owner = Processed
        /\ \A k \in 1..Len(owners) :
              /\ Len(owners[k].properties) >= 1
              /\ \A p \in 1..Len(owners[k].properties) :
                    /\ owners[k].properties[p].row_index \in Processed
                    /\ p > 1 => owners[k].properties[p - 1].row_index
                                   < owners[k].properties[p].row_index
        /\ References(Len(owners)) = idx

\* the registry is built from three rows: the first and the last share a
\* record, the second has one of its own
C22_Witness ==
    /\ opc = "built" /\ idx = 3 /\ Len(rows) = 3
    /\ Len(owners) = 2
    /\ Len(owners[1].properties) = 2
    /\ owners[1].properties[2].row_index = 2
    /\ owners[2].properties[1].row_index = 1
    /\ property_to_owner[1] = 2

\* C7 witness: two rows that differ in case and blanks share one record with
\* two property references, and a row that has the same words in other name
\* parts has a record of its own
C7_Witness ==
    /\ opc = "built" /\ Len(rows) = 3 /\ Len(owners) = 2
    /\ rows[1].first # rows[3].first
    /\ property_to_owner[0] = property_to_owner[2]
    /\ Len(owners[1].properties) = 2
    /\ rows[2].middle = <<"B">>

DigitValue(c) == (CHOOSE d \in 1..10 : DigitChars[d] = c) - 1

IsDigit(c) == \E d \in 1..10 : DigitChars[d] = c

RECURSIVE ParseDecimal(_)
ParseDecimal(digits) ==
    IF digits = <<>> THEN 0
    ELSE 10 * ParseDecimal(SubSeq(digits, 1, Len(digits) - 1))
           + DigitValue(digits[Len(digits)])

\* an id reads "OWN", then the number k in decimal, zero-padded to 4 digits
\* and no further
IsIdOf(id, k) ==
    /\ Len(id) >= 7
    /\ SubSeq(id, 1, 3) = <<"O", "W", "N">>
    /\ LET digits == SubSeq(id, 4, Len(id))
       IN  /\ \A d \in 1..Len(digits) : IsDigit(digits[d])
           /\ ParseDecimal(digits) = k
           /\ Len(digits) > 4 => digits[1] # "0"

\* C8: the k-th OwnerRecord has the id OWN and k, zero-padded to at least 4
\* digits; records stand in the order in which their identity first appears
\* among the rows; ids are pairwise distinct; and a step never removes a
\* record nor changes the id of one.
C8_SequentialIds ==
    /\ [](/\ \A k \in 1..Len(owners) : IsIdOf(owners[k].owner_id, k)
          /\ \A k \in 1..Len(owners), l \in 1..Len(owners) :
                 /\ k # l => owners[k].owner_id # owners[l].owner_id
                 /\ k < l => owners[k].properties[1].row_index
                               < owners[l].properties[1].row_index
          /\ \A k \in 1..Len(owners) :
                 \A i \in Processed :
                     IdentityOf(rows[i + 1]) = IdentityOf(owners[k])
                         => owners[k].properties[1].row_index <= i)
    /\ [][/\ Len(owners') >= Len(owners)
          /\ \A k \in 1..Len(owners) : owners'[k].owner_id = owners[k].owner_id]_vars

\* C8 witness: the first record took a further row after the second record
\* had been created, and both sheets were written
C8_Witness ==
    /\ opc = "written" /\ Len(owners) = 2
    /\ Len(owners[1].properties) = 2
    /\ owners[1].properties[2].row_index = 2
    /\ owners[2].owner_id = <<"O", "W", "N", "0", "0", "0", "2">>

\* the owner layout has been computed
LaidOut == opc \in {"linked", "written"}

\* the sheet rows an owner takes
RowRange(owner) == owner.excel_row .. (owner.excel_row + Len(owner.properties) - 1)

\* C9: once the layout is computed, the first owner starts at row 2, each
\* later owner starts where the previous owner's rows end, the owners' row
\* ranges are pairwise disjoint and together they are the rows 2 .. n + 1
\* for n OwnerRows.
C9_ConsecutiveLayout ==
    LaidOut =>
        /\ owners # <<>> => owners[1].excel_row = 2
        /\ \A k \in 1..(Len(owners) - 1) :
               owners[k + 1].excel_row
                   = owners[k].excel_row + Len(owners[k].properties)
        /\ \A k \in 1..Len(owners), l \in 1..Len(owners) :
               k # l => RowRange(owners[k]) \cap RowRange(owners[l]) = {}
        /\ UNION {RowRange(owners[k]) : k \in 1..Len(owners)} = 2..(Len(rows) + 1)

\* C9 witness: the workbook writer laid out two owners itself, the first of
\* them with two properties
C9_Witness ==
    /\ opc = "written" /\ ~ocfg.link_ids
    /\ Len(owners) = 2 /\ Len(owners[1].properties) = 2
    /\ owners[2].excel_row = 4

\* C9, the other way to the layout: _apply_hyperlink_urls laid out two owners
C9_WitnessLinked ==
    /\ opc = "linked"
    /\ Len(owners) = 2 /\ Len(owners[1].properties) = 2
    /\ owners[2].excel_row = 4

\* the position of the OwnerRecord a row belongs to
OwnerOf(i) == CHOOSE k \in 1..Len(owners) : IdentityOf(owners[k]) = IdentityOf(rows[i + 1])

ToByOwner(link) == link.target \in {"By Owner", "owner_gid"} /\ link.col = "B"

ToByComplex(link) == link.target \in {"By Complex", "complex_gid"} /\ link.col = "A"

\* C10: in the written workbook, the owner link of the "By Complex" row of
\* OwnerRow i targets the "By Owner" row at which its owner starts, that row
\* carries the owner's id, and the Complex Sheet Link of each "By Owner" row
\* of a property with row index i targets "By Complex" row i + 2, which is
\* the row written for OwnerRow i and carries the same owner id; the links
\* _apply_hyperlink_urls leaves in the rows target the owner's starting row.
C10_LinksConsistent ==
    /\ (opc \in {"linked", "written"} /\ ocfg.link_ids) =>
           \A i \in 0..(Len(rows) - 1) :
               /\ ToByOwner(rows[i + 1].owner_link)
               /\ rows[i + 1].owner_link.row = owners[OwnerOf(i)].excel_row
               /\ rows[i + 1].owner_link.text = owners[OwnerOf(i)].owner_id
    /\ opc = "written" =>
           /\ Len(ws_complex) = Len(rows) + 1
           /\ Len(ws_owner) = Len(rows) + 1
           /\ \A i \in 0..(Len(rows) - 1) :
                  LET line == ws_complex[i + 2]
                      owner == owners[OwnerOf(i)]
                  IN  /\ line.kind = "data" /\ line.source = i
                      /\ line.owner_id = owner.owner_id
                      /\ ToByOwner(line.link)
                      /\ line.link.row = owner.excel_row
                      /\ line.link_base = line.link
                      /\ ws_owner[line.link.row].kind = "data"
                      /\ ws_owner[line.link.row].owner_id = owner.owner_id
           /\ \A k \in 1..Len(owners) :
                  \A p \in 1..Len(owners[k].properties) :
                      LET line == ws_owner[owners[k].excel_row + p - 1]
                          i == owners[k].properties[p].row_index
                      IN  /\ line.kind = "data" /\ line.row_index = i
                          /\ line.owner_id = owners[k].owner_id
                          /\ ToByComplex(line.link)
                          /\ line.link.row = i + 2
                          /\ ws_complex[i + 2].source = i
                          /\ ws_complex[i + 2].owner_id = line.owner_id

\* C10 witness: with hyperlinks, an owner's two properties stand on rows 2
\* and 4 of "By Complex" and on rows 2 and 3 of "By Owner"
C10_Witness ==
    /\ opc = "written" /\ ocfg.link_ids
    /\ Len(rows) = 3 /\ Len(owners) = 2 /\ Len(owners[1].properties) = 2
    /\ owners[1].properties[2].row_index = 2
    /\ ws_owner[3].link.row = 4
    /\ ws_complex[4].link.row = 2
    /\ ws_complex[3].link.row = 4

\* C10, without hyperlinks: the same workbook with cell references
C10_WitnessRefs ==
    /\ opc = "written" /\ ~ocfg.link_ids
    /\ Len(rows) = 3 /\ Len(owners) = 2 /\ Len(owners[1].properties) = 2
    /\ owners[1].properties[2].row_index = 2
    /\ ws_owner[3].link = [kind |-> "ref", target |-> "By Complex", col |-> "A",
                           row |-> 4, text |-> <<>>]
    /\ ws_complex[4].link.row = 2

\* ------------------------------------------------------------------------
\* Order of the owner table: the sort that ends _format_owner_table
\* ------------------------------------------------------------------------

MaxSortRows == 3

\* the width of the format specification 012.4f
UnitKeyWidth == 12

\* ------------------------------------------------------------------------
\* float(unit) and the format specification 012.4f, on decimal text
\* ------------------------------------------------------------------------

\* the number of characters c a text ends with
TrailingCount(d, c) ==
    CHOOSE k \in 0..Len(d) :
        /\ k = Len(d) \/ d[Len(d) - k] # c
        /\ \A j \in 1..k : d[Len(d) - j + 1] = c

\* the number of zeros a text starts with
LeadingZeros(d) ==
    CHOOSE k \in 0..Len(d) :
        /\ k = Len(d) \/ d[k + 1] # "0"
        /\ \A j \in 1..k : d[j] = "0"

\* a natural number is its digits, without leading zeros (zero is <<>>)
StripZeros(d) ==
    LET Go(x) == SubSeq(x, LeadingZeros(x) + 1, Len(x))
    IN  Strictly(Go, d)

TrailingZeros(d) == TrailingCount(d, "0")

NumLess(a, b) ==
    LET Go(p) ==
            \/ Len(p[1]) < Len(p[2])
            \/ /\ Len(p[1]) = Len(p[2])
               /\ \E i \in 1..Len(p[1]) :
                      /\ DigitValue(p[1][i]) < DigitValue(p[2][i])
                      /\ \A j \in 1..(i - 1) : p[1][j] = p[2][j]
    IN  Strictly(Go, <<a, b>>)

IsOdd(d) == d # <<>> /\ DigitValue(d[Len(d)]) % 2 = 1

\* the number after d: the nines at the end turn into zeros
Inc(d) ==
    LET Go(x) ==
            LET Carried(k) ==
                    IF k = Len(x) THEN <<"1">> \o Zeros(k)
                    ELSE SubSeq(x, 1, Len(x) - k - 1)
                             \o <<DigitChars[DigitValue(x[Len(x) - k]) + 2]>>
                             \o Zeros(k)
            IN  Strictly(Carried, TrailingCount(x, "9"))
    IN  Strictly(Go, d)

\* half of a number, rounded down: a digit takes ten from the digit before
\* it when that one is odd
Halve(d) ==
    LET Go(x) ==
            StripZeros([i \in 1..Len(x) |->
                           DigitChars[(((IF i > 1 /\ DigitValue(x[i - 1]) % 2 = 1
                                         THEN 10 ELSE 0) + DigitValue(x[i])) \div 2) + 1]])
    IN  Strictly(Go, d)

\* twice a number: a digit takes one from the digit behind it when that one
\* is five or more
Double(d) ==
    LET Go(x) ==
            (IF x # <<>> /\ DigitValue(x[1]) >= 5 THEN <<"1">> ELSE <<>>)
                \o [i \in 1..Len(x) |->
                       DigitChars[((2 * DigitValue(x[i])
                                       + (IF i < Len(x) /\ DigitValue(x[i + 1]) >= 5
                                          THEN 1 ELSE 0)) % 10) + 1]]
    IN  Strictly(Go, d)

\* d * 2^n, one half of the doublings after the other
RECURSIVE Doubled(_, _)
Doubled(d, n) ==
    LET Go(a) ==
            IF a.n = 0 THEN a.d
            ELSE IF a.n = 1 THEN Double(a.d)
            ELSE Doubled(Doubled(a.d, a.n \div 2), a.n - (a.n \div 2))
    IN  Strictly(Go, [d |-> d, n |-> n])

\* d * 5^n: five times a number is half of ten times the number
RECURSIVE FiveTimes(_, _)
FiveTimes(d, n) ==
    LET Go(a) ==
            IF a.n = 0 \/ a.d = <<>> THEN a.d
            ELSE IF a.n = 1 THEN Halve(a.d \o <<"0">>)
            ELSE FiveTimes(FiveTimes(a.d, a.n \div 2), a.n - (a.n \div 2))
    IN  Strictly(Go, [d |-> d, n |-> n])

\* 2^52 and 2^53: a double holds 53 bits
Pow2_52 == <<"4", "5", "0", "3", "5", "9", "9", "6", "2", "7", "3", "7", "0", "4", "9", "6">>

Pow2_53 == <<"9", "0", "0", "7", "1", "9", "9", "2", "5", "4", "7", "4", "0", "9", "9", "2">>

InfText == <<"i", "n", "f">>

NanText == <<"n", "a", "n">>

\* d / 10^k, rounded to the nearest whole number, a half to the even one
RoundAt(d, k) ==
    LET Go(a) ==
            LET q == StripZeros(SubSeq(a.dp, 1, Len(a.dp) - a.k))
                first == DigitValue(a.dp[Len(a.dp) - a.k + 1])
                more == \E i \in (Len(a.dp) - a.k + 2)..Len(a.dp) : a.dp[i] # "0"
            IN  IF first > 5 \/ (first = 5 /\ more) THEN Inc(q)
                ELSE IF first < 5 THEN q
                ELSE IF IsOdd(q) THEN Inc(q) ELSE q
    IN  IF k = 0 THEN d ELSE Strictly(Go, [dp |-> ZeroPad(d, k), k |-> k])

\* a number of ten-thousandths with its decimal point
Point4(scaled) ==
    LET Split(w) == SubSeq(w, 1, Len(w) - 4) \o <<".">> \o SubSeq(w, Len(w) - 3, Len(w))
    IN  Strictly(Split, ZeroPad(scaled, 5))

\* a whole number of 54 bits or more is halved until 53 bits are left, n
\* times at most: st.s is the number of bits dropped, st.guard the last of
\* them, and st.sticky whether one of the bits before it was set
RECURSIVE DropBits(_, _)
DropBits(st, n) ==
    LET Go(a) ==
            IF a.n = 0 \/ NumLess(a.st.q, Pow2_53) THEN a.st
            ELSE IF a.n = 1
            THEN [q |-> Halve(a.st.q), s |-> a.st.s + 1,
                  guard |-> DigitValue(a.st.q[Len(a.st.q)]) % 2,
                  sticky |-> a.st.sticky \/ a.st.guard = 1]
            ELSE DropBits(DropBits(a.st, a.n \div 2), a.n - (a.n \div 2))
    IN  Strictly(Go, [st |-> st, n |-> n])

\* the double nearest to A / 10^k, which is 2^53 or more: a whole number
\* of 53 bits, times 2^s (a number of d digits has 4 * d bits at most)
FormatDropped(A, k) ==
    LET Rounded(b) ==
            LET Text(q) ==
                    IF b.s > 971 \/ (b.s = 971 /\ q = Pow2_53) THEN InfText
                    ELSE Doubled(q, b.s) \o <<".", "0", "0", "0", "0">>
            IN  Strictly(Text,
                         IF b.guard = 1 /\ (b.sticky \/ IsOdd(b.q)) THEN Inc(b.q) ELSE b.q)
        Bits(a) ==
            DropBits([q |-> SubSeq(a.A, 1, Len(a.A) - a.k), s |-> 0, guard |-> 0,
                      sticky |-> \E i \in (Len(a.A) - a.k + 1)..Len(a.A) : a.A[i] # "0"],
                     4 * Len(a.A))
    IN  Strictly(Rounded, Strictly(Bits, [A |-> A, k |-> k]))

\* a number is doubled until it is not below the limit, n times at most
RECURSIVE Raise(_, _, _)
Raise(st, limit, n) ==
    LET Go(a) ==
            IF a.n = 0 \/ ~NumLess(a.st.N, a.limit) THEN a.st
            ELSE IF a.n = 1 THEN [N |-> Double(a.st.N), t |-> a.st.t + 1]
            ELSE Raise(Raise(a.st, a.limit, a.n \div 2), a.limit, a.n - (a.n \div 2))
    IN  Strictly(Go, [st |-> st, limit |-> limit, n |-> n])

\* the double nearest to A / 10^k, which is below 2^53 and not below 10^-6:
\* m / 2^t with m of 53 bits and t at most 72, written out as
\* m * 5^t / 10^t and rounded to four places
FormatRaised(A, k) ==
    LET Go(a) ==
            LET Text(n) ==
                    LET Places(M) ==
                            IF n.t <= 4 THEN Point4(M \o Zeros(4 - n.t))
                            ELSE Point4(RoundAt(M, n.t - 4))
                    IN  Strictly(Places, FiveTimes(RoundAt(n.N, a.k), n.t))
            IN  Strictly(Text, Raise([N |-> a.A, t |-> 0], Pow2_52 \o Zeros(a.k), 72))
    IN  Strictly(Go, [A |-> A, k |-> k])

\* f"{value:.4f}" of the double nearest to D * 10^E.  A number of at most
\* four places below 10^11 is printed as it is written
FormatFinite(D, E) ==
    LET Go(a) ==
            IF a.D = <<>> THEN Point4(<<>>)
            ELSE IF Len(a.D) + a.E > 310 THEN InfText
            ELSE IF Len(a.D) + a.E < 0 - 5 THEN Point4(<<>>)
            ELSE IF a.E >= 0 - 4 /\ Len(a.D) + a.E <= 11 THEN Point4(a.D \o Zeros(a.E + 4))
            ELSE IF a.E >= 0
            THEN IF NumLess(a.D \o Zeros(a.E), Pow2_53)
                 THEN FormatRaised(a.D \o Zeros(a.E), 0)
                 ELSE FormatDropped(a.D \o Zeros(a.E), 0)
            ELSE IF NumLess(a.D, Pow2_53 \o Zeros(0 - a.E))
                 THEN FormatRaised(a.D, 0 - a.E)
                 ELSE FormatDropped(a.D, 0 - a.E)
    IN  Strictly(Go, [D |-> D, E |-> E])

IsSign(c) == c = "+" \/ c = "-"

\* a digitpart of the grammar of float: digits, and single underscores
\* between two of them
IsDigitPart(s) ==
    /\ s # <<>>
    /\ IsDigit(s[1])
    /\ IsDigit(s[Len(s)])
    /\ \A i \in 1..Len(s) : IsDigit(s[i]) \/ (s[i] = "_" /\ s[i - 1] # "_")

\* the mantissa and the exponent of a text without its sign: digits is the
\* digits of the mantissa, places how many of them follow the point
SplitNumber(body) ==
    LET es == {i \in 1..Len(body) : body[i] \in {"e", "E"}}
        epos == IF es = {} THEN Len(body) + 1 ELSE CHOOSE i \in es : TRUE
        mant == SubSeq(body, 1, epos - 1)
        extext == SubSeq(body, epos + 1, Len(body))
        exsigned == extext # <<>> /\ IsSign(extext[1])
        exdigits == IF exsigned THEN Tail(extext) ELSE extext
        dots == {i \in 1..Len(mant) : mant[i] = "."}
        dpos == IF dots = {} THEN Len(mant) + 1 ELSE CHOOSE i \in dots : TRUE
        ip == SubSeq(mant, 1, dpos - 1)
        fp == SubSeq(mant, dpos + 1, Len(mant))
        ex == StripZeros(SelectSeq(exdigits, IsDigit))
    IN  [wellFormed |->
             /\ Cardinality(es) <= 1
             /\ Cardinality(dots) <= 1
             /\ es # {} => IsDigitPart(exdigits)
             /\ ip # <<>> \/ fp # <<>>
             /\ ip = <<>> \/ IsDigitPart(ip)
             /\ fp = <<>> \/ IsDigitPart(fp),
         digits |-> StripZeros(SelectSeq(ip, IsDigit) \o SelectSeq(fp, IsDigit)),
         places |-> Len(SelectSeq(fp, IsDigit)),
         exneg |-> exsigned /\ extext[1] = "-",
         e |-> IF Len(ex) > 4 THEN 10000 ELSE ParseDecimal(ex)]

\* the text float() reads for a str: a decimal digit beyond ASCII is its
\* digit of ASCII, whitespace beyond ASCII a blank, and any other character
\* beyond ASCII one that is no part of a number
FloatText(unit) ==
    [i \in 1..Len(unit) |->
        IF IsPlain(unit[i]) \/ unit[i] = "U+0060" \/ SubSeq(unit[i], 1, 5) \in {"U+000", "U+001"}
        THEN unit[i]
        ELSE IF IsSpace(unit[i]) THEN " "
        ELSE IF IsDecimal(unit[i]) THEN Mapped(Decimals, unit[i])[1]
        ELSE "?"]

\* the whitespace float() strips: the blank and the code points 9 to 13
FloatStrip(s) ==
    LET Blank(c) == c \in {" ", "U+0009", "U+000A", "U+000B", "U+000C", "U+000D"}
        first == CHOOSE n \in 0..Len(s) :
                     /\ \A i \in 1..n : Blank(s[i])
                     /\ n = Len(s) \/ ~Blank(s[n + 1])
        last == CHOOSE n \in 0..Len(s) :
                    /\ \A i \in (n + 1)..Len(s) : Blank(s[i])
                    /\ n = 0 \/ ~Blank(s[n])
    IN  SubSeq(s, first + 1, last)

\* float(unit): whether the text is a number, and the number by its sign,
\* its digits and its power of ten (the digits end with no zero)
ParseFloat(unit) ==
    LET Parse(t) ==
            LET signed == t # <<>> /\ IsSign(t[1])
                neg == signed /\ t[1] = "-"
                Number(low) ==
                    LET Finite(n) ==
                            IF ~n.wellFormed
                            THEN [ok |-> FALSE, kind |-> "none", neg |-> FALSE,
                                  digits |-> <<>>, exp |-> 0]
                            ELSE [ok |-> TRUE, kind |-> "finite", neg |-> neg,
                                  digits |-> SubSeq(n.digits, 1,
                                                    Len(n.digits) - TrailingZeros(n.digits)),
                                  exp |-> (IF n.exneg THEN 0 - n.e ELSE n.e) - n.places
                                              + TrailingZeros(n.digits)]
                    IN  IF low = InfText \/ low = <<"i", "n", "f", "i", "n", "i", "t", "y">>
                        THEN [ok |-> TRUE, kind |-> "inf", neg |-> neg, digits |-> <<>>,
                              exp |-> 0]
                        ELSE IF low = NanText
                        THEN [ok |-> TRUE, kind |-> "nan", neg |-> neg, digits |-> <<>>,
                              exp |-> 0]
                        ELSE Strictly(Finite, SplitNumber(IF signed THEN Tail(t) ELSE t))
            IN  Strictly(Number, [i \in 1..Len(IF signed THEN Tail(t) ELSE t) |->
                                     LowerChar((IF signed THEN Tail(t) ELSE t)[i])])
    IN  Strictly(Parse, FloatStrip(FloatText(unit)))

\* float(unit) of _unit_sort_key does not raise ValueError
IsFloat(unit) == ParseFloat(unit).ok

\* float(unit)
FloatOf(unit) == ParseFloat(unit)

\* f"{value:012.4f}": the sign comes first and the zeros fill the width
\* behind it; nan is written without a sign
Format012_4f(value) ==
    LET Go(v) ==
            LET Padded(body) ==
                    IF v.neg /\ v.kind # "nan"
                    THEN <<"-">> \o ZeroPad(body, UnitKeyWidth - 1)
                    ELSE ZeroPad(body, UnitKeyWidth)
            IN  Strictly(Padded,
                         CASE v.kind = "nan" -> NanText
                           [] v.kind = "inf" -> InfText
                           [] OTHER -> FormatFinite(v.digits, v.exp))
    IN  Strictly(Go, value)

\* _unit_sort_key
_unit_sort_key(unit) ==
    IF unit = <<>> THEN <<1, <<>>>>
    ELSE IF ~IsFloat(unit) THEN <<0, Lower(unit)>>
    ELSE <<0, Format012_4f(FloatOf(unit))>>

\* the key of the sort of line 947
RowSortKey(row) == <<Lower(row.complex), _unit_sort_key(row.unit)>>

\* the order of Python on the keys: the strings by code point, the pairs
\* item by item
SortKeyLess(k1, k2) ==
    \/ StrLess(k1[1], k2[1])
    \/ /\ k1[1] = k2[1]
       /\ \/ k1[2][1] < k2[2][1]
          \/ k1[2][1] = k2[2][1] /\ StrLess(k1[2][2], k2[2][2])

\* a row put into a sorted list behind every row that is not greater
RECURSIVE InsertByRowKey(_, _)
InsertByRowKey(sorted, row) ==
    IF sorted = <<>> THEN <<row>>
    ELSE IF SortKeyLess(RowSortKey(row), RowSortKey(Head(sorted)))
         THEN <<row>> \o sorted
         ELSE <<Head(sorted)>> \o InsertByRowKey(Tail(sorted), row)

\* rows.sort(key=...): list.sort is stable
RECURSIVE SortRows(_)
SortRows(rws) ==
    IF rws = <<>> THEN <<>>
    ELSE InsertByRowKey(SortRows(SubSeq(rws, 1, Len(rws) - 1)), rws[Len(rws)])

\* the rows the loop of _format_owner_table has appended, by grouping label
\* and unit; src is the position of the row before the sort
SortRowPool ==
    [complex : {<<"C">>, <<"c">>},
     unit : {<<"2">>, <<"1", "0">>, <<"A">>, <<"b">>, <<>>, <<"0", "-", "1">>,
             <<"1", "e", "1">>, <<"i", "n", "f">>}]
        \cup {[complex |-> <<"d">>, unit |-> <<"2">>]}

SortInputs ==
    UNION {[1..n -> SortRowPool] : n \in 0..MaxSortRows}

InitSort ==
    /\ QIdle
    /\ OIdle
    /\ ppc = "sort:ready"
    /\ input \in SortInputs
    /\ output = <<>>
    /\ gui = NoWindow

\* _format_owner_table, lines 947-948
FormatOwnerTableSort ==
    /\ ppc = "sort:ready"
    /\ output' = SortRows([i \in 1..Len(input) |->
                              [complex |-> input[i].complex, unit |-> input[i].unit,
                               src |-> i]])
    /\ ppc' = "sort:done"
    /\ UNCHANGED <<qvars, ovars, input, gui>>

SpecSort == InitSort /\ [][FormatOwnerTableSort]_vars

\* the place of a unit in the order the documentation gives: numbers, then
\* other units, then no unit
UnitClass(unit) ==
    IF unit = <<>> THEN 2 ELSE IF IsFloat(unit) THEN 0 ELSE 1

\* the order of the numbers as they are written, by sign and magnitude
IsZero(v) == v.kind = "finite" /\ v.digits = <<>>

MagLess(a, b) ==
    IF a.kind = "inf" \/ IsZero(b) THEN FALSE
    ELSE IF b.kind = "inf" \/ IsZero(a) THEN TRUE
    ELSE \/ Len(a.digits) + a.exp < Len(b.digits) + b.exp
         \/ /\ Len(a.digits) + a.exp = Len(b.digits) + b.exp
            /\ StrLess(a.digits, b.digits)

FloatLess(a, b) ==
    /\ a.kind # "nan"
    /\ b.kind # "nan"
    /\ CASE a.neg /\ ~b.neg -> ~(IsZero(a) /\ IsZero(b))
         [] ~a.neg /\ b.neg -> FALSE
         [] a.neg /\ b.neg -> MagLess(b, a)
         [] OTHER -> MagLess(a, b)

\* one unit is before another in the order the documentation gives
UnitBefore(u1, u2) ==
    \/ UnitClass(u1) < UnitClass(u2)
    \/ /\ UnitClass(u1) = 0 /\ UnitClass(u2) = 0
       /\ FloatLess(FloatOf(u1), FloatOf(u2))
    \/ /\ UnitClass(u1) = 1 /\ UnitClass(u2) = 1
       /\ StrLess(Lower(u1), Lower(u2))

\* C11: the sorted rows are ordered by the grouping label without regard to
\* case; under one label every unit that parses as a number is before every
\* other unit, the numbers ascend, the other units are in alphabetical order
\* without regard to case, rows without a unit are last, and rows equal on
\* both keys keep the order they came in
C11_UnitOrder ==
    ppc = "sort:done" =>
        /\ Len(output) = Len(input)
        /\ {output[i].src : i \in 1..Len(output)} = 1..Len(input)
        /\ \A i, j \in 1..Len(output) :
              i < j =>
                 /\ ~StrLess(Lower(output[j].complex), Lower(output[i].complex))
                 /\ Lower(output[i].complex) = Lower(output[j].complex) =>
                       /\ ~UnitBefore(output[j].unit, output[i].unit)
                       /\ (~UnitBefore(output[i].unit, output[j].unit)
                              => output[i].src < output[j].src)

\* ------------------------------------------------------------------------
\* Rewriting the links of a workbook: _rewrite_workbook_links
\* ------------------------------------------------------------------------

MaxLinkRows == 2

\* the text before the document id of a link, and the texts that follow
HyperlinkOpen ==
    <<"=", "H", "Y", "P", "E", "R", "L", "I", "N", "K", "(", "\"", "h", "t", "t", "p",
      "s", ":", "/", "/", "d", "o", "c", "s", ".", "g", "o", "o", "g", "l", "e", ".",
      "c", "o", "m", "/", "s", "p", "r", "e", "a", "d", "s", "h", "e", "e", "t", "s",
      "/", "d", "/">>

GidMark == <<"/", "e", "d", "i", "t", "#", "g", "i", "d", "=">>

RangeMark == <<"&", "r", "a", "n", "g", "e", "=">>

\* f"https://docs.google.com/spreadsheets/d/{doc_id}/edit#gid={gid}&range={cell_range}"
SheetUrl(doc_id, gid, cell_range) ==
    SubSeq(HyperlinkOpen, 13, Len(HyperlinkOpen)) \o doc_id \o GidMark \o gid
        \o RangeMark \o cell_range

\* f'=HYPERLINK("{url}", "{label}")'
HyperlinkFormula(url, label) ==
    SubSeq(HyperlinkOpen, 1, 12) \o url \o <<"\"", ",", " ", "\"">> \o label
        \o <<"\"", ")">>

\* the characters a pattern compiled with re.IGNORECASE takes for a letter
\* besides its two cases: the dotted capital I and the dotless i for i, the
\* long s for s, the Kelvin sign for k
IgnoreCaseOthers(letter) ==
    CASE letter \in {"i", "I"} -> {"U+0130", "U+0131"}
      [] letter \in {"s", "S"} -> {"U+017F"}
      [] letter \in {"k", "K"} -> {"U+212A"}
      [] OTHER -> {}

\* whether a character of a pattern compiled with re.IGNORECASE matches c
MatchesIgnoringCase(c, letter) ==
    UpperChar(c) = UpperChar(letter) \/ c \in IgnoreCaseOthers(letter)

\* the length of the longest run, from the start of s, of characters of a
\* class of a pattern: one less than the first of the places of s, taken
\* once as t, that hold no character of the class, and the length of s when
\* there is no such place
RunLength(s, class) ==
    LET InClass(c) ==
            CASE class = "\\d" -> c \in DecimalChars
              [] class = "[0-9]" -> IsDigit(c)
              [] class = "[A-Z]" -> IsUpperLetter(c)
              [] class = "\\s" -> c \in Whitespace
              [] class = "[^/]" -> c # "/"
              [] class = "[^']" -> c # "'"
              [] class = "[^>]" -> c # ">"
              [] class = "[sS]" -> c \in {"s", "S", "U+017F"}
              [] class = "[0-9a-fA-F]" ->
                    IsDigit(c) \/ c \in {"a", "b", "c", "d", "e", "f", "A", "B", "C", "D",
                                          "E", "F"}
              [] class = "[^\\t\\n\\f <&#;]" ->
                    c \notin {"U+0009", "U+000A", "U+000C", " ", "<", "&", "#", ";"}
              [] class = "[A-Za-z0-9\\\\-]" ->
                    IsUpperLetter(c) \/ IsLowerLetter(c) \/ IsDigit(c)
                       \/ c \in {"\\", "-", "U+0130", "U+0131", "U+017F", "U+212A"}
    IN  CHOOSE n \in UNION {{IF out = {} THEN Len(t)
                              ELSE (CHOOSE i \in out : \A j \in out : i <= j) - 1 :
                                 out \in {{i \in 1..Len(t) : ~InClass(t[i])}}} :
                                t \in {s}} : TRUE

StartsWith(s, prefix) ==
    Len(s) >= Len(prefix) /\ SubSeq(s, 1, Len(prefix)) = prefix

Drop(s, n) == SubSeq(s, n + 1, Len(s))

\* [A-Z]+\d+ at the start of s: the text matched, <<>> when there is no match
CellAddressAt(s) ==
    LET Address(letters, digits) ==
            IF letters > 0 /\ digits > 0 THEN SubSeq(s, 1, letters + digits) ELSE <<>>
        After(letters) == Address(letters, RunLength(Drop(s, letters), "\\d"))
    IN  After(RunLength(s, "[A-Z]"))

\* (?:""|[^"])* at the start of s: the length of the text matched
RECURSIVE QuotedLabelLength(_)
QuotedLabelLength(s) ==
    IF s = <<>> THEN 0
    ELSE IF Head(s) # "\"" THEN 1 + QuotedLabelLength(Tail(s))
    ELSE IF Len(s) >= 2 /\ s[2] = "\"" THEN 2 + QuotedLabelLength(Drop(s, 2))
    ELSE 0

\* mutant: the doubled quotes of a label are left as they are
UnescapeKeepsDoubled(label) == label

\* .replace('""', '"') of _extract_range_and_label
RECURSIVE Unescape(_)
Unescape(label) ==
    IF label = <<>> THEN <<>>
    ELSE IF Len(label) >= 2 /\ label[1] = "\"" /\ label[2] = "\""
         THEN <<"\"">> \o Unescape(Drop(label, 2))
         ELSE <<Head(label)>> \o Unescape(Tail(label))

\* HYPERLINK_RE.match(value): the two groups. Every repetition of the pattern
\* is followed by a character outside its class, so each takes the longest
\* run. The value is read from left to right; st is what is left of it, the
\* groups read so far, and whether the pattern still matches
HyperlinkMatch(value) ==
    LET Failed(st) == [st EXCEPT !.ok = FALSE]
        Literal(st, text) ==
            IF st.ok /\ StartsWith(st.rest, text)
            THEN [st EXCEPT !.rest = Drop(st.rest, Len(text))] ELSE Failed(st)
        Skip(st, n, least) ==
            IF n >= least THEN [st EXCEPT !.rest = Drop(st.rest, n)] ELSE Failed(st)
        Run(st, class, least) ==
            IF st.ok THEN Skip(st, RunLength(st.rest, class), least) ELSE st
        Group1(st, cell) ==
            IF cell # <<>>
            THEN [st EXCEPT !.rest = Drop(st.rest, Len(cell)), !.cell_range = cell]
            ELSE Failed(st)
        CellAddress(st) == IF st.ok THEN Group1(st, CellAddressAt(st.rest)) ELSE st
        Group2(st, n) ==
            [st EXCEPT !.rest = Drop(st.rest, n), !.label = SubSeq(st.rest, 1, n)]
        QuotedLabel(st) == IF st.ok THEN Group2(st, QuotedLabelLength(st.rest)) ELSE st
        Groups(st) ==
            IF st.ok
            THEN [matched |-> TRUE, cell_range |-> st.cell_range, label |-> st.label]
            ELSE [matched |-> FALSE, cell_range |-> <<>>, label |-> <<>>]
        start == [ok |-> TRUE, rest |-> value, cell_range |-> <<>>, label |-> <<>>]
        doc_id == Run(Literal(start, HyperlinkOpen), "[^/]", 1)
        gid == Run(Literal(doc_id, GidMark), "\\d", 1)
        cell_range == CellAddress(Literal(gid, RangeMark))
        comma == Literal(Run(Literal(cell_range, <<"\"">>), "\\s", 0), <<",">>)
        label == QuotedLabel(Literal(Run(comma, "\\s", 0), <<"\"">>))
    IN  Groups(Literal(label, <<"\"", ")">>))

\* CELL_REF_RE.search(value): the group of the leftmost '[^']+'![A-Z]+\d+,
\* <<>> when there is none
CellRefSearch(value) ==
    LET Search(v) ==
            LET Here(after, name) ==
                    IF name > 0 /\ StartsWith(after, <<"'", "!">>)
                    THEN CellAddressAt(Drop(after, 2)) ELSE <<>>
                From(rest) == Here(Drop(rest, RunLength(rest, "[^']")),
                                   RunLength(rest, "[^']"))
                At(i) == IF v[i] = "'" THEN From(Drop(v, i)) ELSE <<>>
                found == {i \in 1..Len(v) : At(i) # <<>>}
            IN  IF found = {} THEN <<>>
                ELSE At(CHOOSE i \in found : \A j \in found : i <= j)
    IN  Strictly(Search, value)

\* _extract_range_and_label; no range is <<>>
_extract_range_and_label(value, default_label) ==
    LET Found(match, stripped) ==
            IF match.matched
            THEN [cell_range |-> match.cell_range, label |-> Unescape(match.label)]
            ELSE [cell_range |-> CellRefSearch(stripped), label |-> default_label]
        Match(stripped) == Found(HyperlinkMatch(stripped), stripped)
    IN  Match(Strip(value))

\* _build_hyperlink_formula
_build_hyperlink_formula(doc_id, gid, cell_range, label) ==
    HyperlinkFormula(SheetUrl(doc_id, gid, cell_range),
                     _excel_escape(IF label # <<>> THEN label ELSE cell_range))

\* _find_header_column: the first column whose cell of row 1, without the
\* blanks around it, is the header; 0 when it raises
_find_header_column(sheet, header) ==
    IF \E col \in 1..Len(sheet[1]) : Strip(sheet[1][col]) = header
    THEN CHOOSE col \in 1..Len(sheet[1]) :
             /\ Strip(sheet[1][col]) = header
             /\ \A c \in 1..(col - 1) : Strip(sheet[1][c]) # header
    ELSE 0

\* the headers _rewrite_workbook_links looks for, and two more
HeaderOwnerLink == <<"O", "w", "n", "e", "r", " ", "L", "i", "n", "k">>

HeaderOwnerId == <<"O", "w", "n", "e", "r", " ", "I", "D">>

HeaderComplexSheetLink ==
    <<"C", "o", "m", "p", "l", "e", "x", " ", "S", "h", "e", "e", "t", " ", "L", "i", "n", "k">>

HeaderPropertyComplex ==
    <<"P", "r", "o", "p", "e", "r", "t", "y", " ", "C", "o", "m", "p", "l", "e", "x">>

HeaderPropertyUnit ==
    <<"P", "r", "o", "p", "e", "r", "t", "y", " ", "U", "n", "i", "t">>

HeaderScheduleNumber ==
    <<"S", "c", "h", "e", "d", "u", "l", "e", " ", "N", "u", "m", "b", "e", "r">>

HeaderComplex == <<"C", "o", "m", "p", "l", "e", "x">>

HeaderUnit == <<"U", "n", "i", "t">>

\* the columns of the two sheets that hold a link or a part of a label, in
\* the order _write_excel_workbook gives them
ComplexColumns ==
    <<HeaderComplex, HeaderUnit, HeaderOwnerLink, HeaderOwnerId, HeaderOwnerLink>>

OwnerColumns ==
    <<HeaderOwnerId, HeaderPropertyComplex, HeaderPropertyUnit, HeaderScheduleNumber,
      HeaderComplexSheetLink>>

\* no document identity: the workbook is written with bare references
NoIdentity == [doc_id |-> <<>>, complex_gid |-> <<>>, owner_gid |-> <<>>]

\* main, line 614: the links are written only with a document id and both
\* sheet ids
HasIdentity(id) == id.doc_id # <<>> /\ id.complex_gid # <<>> /\ id.owner_gid # <<>>

\* _apply_hyperlink_urls and _write_excel_workbook on rows that each have an
\* owner of their own: row i is on sheet row i + 1 of both sheets
WrittenWorkbook(props, id) ==
    LET linked == HasIdentity(id)
        SheetRow(i) == Decimal(ComplexRow(i - 1))
        owner_link(i) ==
            IF linked
            THEN HyperlinkFormula(SheetUrl(id.doc_id, id.owner_gid, <<"B">> \o SheetRow(i)),
                                  OwnerId(i))
            ELSE <<"'", "B", "y", " ", "O", "w", "n", "e", "r", "'", "!", "B">>
                     \o SheetRow(i)
        complex_formula(i) ==
            IF linked
            THEN HyperlinkFormula(SheetUrl(id.doc_id, id.complex_gid,
                                           <<"A">> \o SheetRow(i)),
                                  _excel_escape(LinkLabel(props[i])))
            ELSE <<"'", "B", "y", " ", "C", "o", "m", "p", "l", "e", "x", "'", "!", "A">>
                     \o SheetRow(i)
    IN  [complex |-> <<ComplexColumns>> \o
                     [i \in 1..Len(props) |->
                         <<props[i].complex, props[i].unit, owner_link(i), OwnerId(i),
                           owner_link(i)>>],
         owner |-> <<OwnerColumns>> \o
                   [i \in 1..Len(props) |->
                       <<OwnerId(i), props[i].complex, props[i].unit, props[i].schedule,
                         complex_formula(i)>>]]

\* _rewrite_workbook_links, lines 1356-1390: the two loops over the sheets
RewrittenWorkbook(wb, id) ==
    LET owner_link_col == _find_header_column(wb.complex, HeaderOwnerLink)
        owner_id_col == _find_header_column(wb.complex, HeaderOwnerId)
        complex_link_col == _find_header_column(wb.owner, HeaderComplexSheetLink)
        prop_complex_col == _find_header_column(wb.owner, HeaderPropertyComplex)
        prop_unit_col == _find_header_column(wb.owner, HeaderPropertyUnit)
        schedule_col == _find_header_column(wb.owner, HeaderScheduleNumber)
        DefaultLabel(complex, unit_val, sched_val) ==
            Strip(JoinNonEmpty(<<complex>>
                                 \o (IF unit_val # <<>> THEN <<unit_val>> ELSE <<>>)
                                 \o (IF sched_val # <<>> /\ unit_val = <<>>
                                     THEN <<sched_val>> ELSE <<>>)))
        Rewritten(row, col, gid, found) ==
            IF Strip(row[col]) = <<>> \/ found.cell_range = <<>> THEN row
            ELSE [row EXCEPT ![col] =
                     _build_hyperlink_formula(id.doc_id, gid, found.cell_range,
                                              found.label)]
        ComplexRowAfter(row) ==
            Rewritten(row, owner_link_col, id.owner_gid,
                      _extract_range_and_label(row[owner_link_col], row[owner_id_col]))
        OwnerRowAfter(row) ==
            Rewritten(row, complex_link_col, id.complex_gid,
                      _extract_range_and_label(
                          row[complex_link_col],
                          DefaultLabel(row[prop_complex_col], row[prop_unit_col],
                                       row[schedule_col])))
    IN  [complex |-> [r \in 1..Len(wb.complex) |->
                         IF r < FirstDataRow THEN wb.complex[r]
                         ELSE ComplexRowAfter(wb.complex[r])],
         owner |-> [r \in 1..Len(wb.owner) |->
                       IF r < FirstDataRow THEN wb.owner[r]
                       ELSE OwnerRowAfter(wb.owner[r])]]

\* a workbook whose headers were typed over with blanks around them
PaddedHeaders(wb) ==
    LET Padded(row) ==
            [c \in 1..Len(row) |-> IF c % 2 = 1 THEN row[c] \o <<" ">> ELSE <<" ">> \o row[c]]
    IN  [complex |-> [wb.complex EXCEPT ![1] = Padded(@)],
         owner |-> [wb.owner EXCEPT ![1] = Padded(@)]]

\* the properties of a workbook give labels with a double quote and labels
\* without any text; old is the identity the workbook is written with (all
\* of it, a part of it, or none), new the one the links are rewritten to
InitRewrite ==
    LET LinkProps ==
            [complex : {<<>>, <<"a", "\"", "b">>, <<"c">>}, unit : {<<>>, <<"1">>},
             schedule : {<<>>, <<"s">>}]
        LinkIdentities ==
            {[doc_id |-> <<"d">>, complex_gid |-> <<"1">>, owner_gid |-> <<"2">>],
             [doc_id |-> <<"e">>, complex_gid |-> <<"3">>, owner_gid |-> <<"4">>]}
    IN  /\ QIdle
        /\ OIdle
        /\ ppc = "rewrite:ready"
        /\ input \in [props : UNION {[1..n -> LinkProps] : n \in 1..MaxLinkRows},
                      old : LinkIdentities
                              \cup {NoIdentity,
                                    [NoIdentity EXCEPT !.doc_id = <<"d">>,
                                                       !.owner_gid = <<"2">>]},
                      new : LinkIdentities
                              \cup {[NoIdentity EXCEPT !.complex_gid = <<"3">>]}]
        /\ output = <<>>
        /\ gui = NoWindow

\* main, lines 614-634: the workbook is written, with links to the old
\* identity when there is one
WriteWorkbook ==
    /\ ppc = "rewrite:ready"
    /\ output' = <<WrittenWorkbook(input.props, input.old)>>
    /\ ppc' = "rewrite:written"
    /\ UNCHANGED <<qvars, ovars, input, gui>>

\* the saved workbook is edited in a spreadsheet program before its links
\* are rewritten: the cells of row 1 get blanks around their text
EditHeaders ==
    /\ ppc = "rewrite:written"
    /\ output[1].complex[1] = ComplexColumns
    /\ output' = <<PaddedHeaders(output[1])>>
    /\ UNCHANGED <<qvars, ovars, ppc, input, gui>>

\* _rewrite_workbook_links on the workbook saved last; it raises when a part
\* of the identity is missing
RewriteWorkbookLinks ==
    /\ ppc \in {"rewrite:written", "rewrite:once"}
    /\ IF input.new.doc_id = <<>> \/ input.new.complex_gid = <<>>
          \/ input.new.owner_gid = <<>>
       THEN /\ ppc' = "rewrite:raised"
            /\ output' = output
       ELSE /\ ppc' = IF ppc = "rewrite:written" THEN "rewrite:once" ELSE "rewrite:twice"
            /\ output' = Append(output, RewrittenWorkbook(output[Len(output)], input.new))
    /\ UNCHANGED <<qvars, ovars, input, gui>>

SpecRewrite ==
    InitRewrite /\ [][WriteWorkbook \/ EditHeaders \/ RewriteWorkbookLinks]_vars

\* C12: rewriting the links twice to the same identity leaves both sheets as
\* the first rewrite left them, whether the workbook was written with
\* HYPERLINK formulas or with bare references, and whatever the labels
C12_RewriteIdempotent ==
    ppc = "rewrite:twice" => output[3] = output[2]

C12_Witness ==
    /\ ppc = "rewrite:twice"
    /\ output[2] # output[1]
    /\ \E i \in 1..Len(input.props) : LinkLabel(input.props[i]) = <<"a", "\"", "b">>
    /\ \E i \in 1..Len(input.props) : LinkLabel(input.props[i]) = <<>>

C12_WitnessBareReferences ==
    /\ ppc = "rewrite:twice"
    /\ input.old = NoIdentity
    /\ output[2] # output[1]

\* C12, on an edited workbook: the headers are found by their stripped text
C12_WitnessPaddedHeaders ==
    /\ ppc = "rewrite:twice"
    /\ output[1].complex[1] # ComplexColumns
    /\ output[2] # output[1]

\* C13: after one rewrite of a written workbook, every "Owner Link" cell of
\* "By Complex" is the HYPERLINK formula of the new document id and the owner
\* gid, and every "Complex Sheet Link" cell of "By Owner" the one of the new
\* document id and the complex gid, each to the cell it pointed to and with
\* the label it had (a bare reference takes the label of its row); so no
\* link cell is left on the identity the workbook was written with
C13_LinksRetargeted ==
    ppc = "rewrite:once" =>
        LET after == output[2]
            id == input.new
            Label(i) == LinkLabel(input.props[i])
        IN  /\ \A r \in FirstDataRow..Len(after.complex) :
                  \A c \in 1..Len(ComplexColumns) :
                     ComplexColumns[c] = HeaderOwnerLink =>
                        after.complex[r][c] =
                            HyperlinkFormula(
                                SheetUrl(id.doc_id, id.owner_gid, <<"B">> \o Decimal(r)),
                                OwnerId(r - 1))
            /\ \A r \in FirstDataRow..Len(after.owner) :
                  \A c \in 1..Len(OwnerColumns) :
                     OwnerColumns[c] = HeaderComplexSheetLink =>
                        after.owner[r][c] =
                            HyperlinkFormula(
                                SheetUrl(id.doc_id, id.complex_gid, <<"A">> \o Decimal(r)),
                                _excel_escape(IF ~HasIdentity(input.old) /\ Label(r - 1) = <<>>
                                              THEN <<"A">> \o Decimal(r)
                                              ELSE Label(r - 1)))

\* ------------------------------------------------------------------------
\* The parts of an owner name: _split_owner_name
\* ------------------------------------------------------------------------

MaxNameTokens == 3

BUSINESS_KEYWORDS ==
    {<<" ", "L", "L", "C">>,
     <<" ", "L", ".", "L", ".", "C">>,
     <<" ", "L", "L", "P">>,
     <<" ", "L", ".", "L", ".", "P">>,
     <<" ", "I", "N", "C">>,
     <<" ", "C", "O", " ">>,
     <<" ", "C", "O", "M", "P", "A", "N", "Y">>,
     <<" ", "C", "O", "R", "P", "O", "R", "A", "T", "I", "O", "N">>,
     <<" ", "C", "O", "R", "P">>,
     <<" ", "L", "P">>,
     <<" ", "L", ".", "P">>,
     <<" ", "L", "L", "L", "P">>,
     <<" ", "P", "L", "L", "C">>,
     <<" ", "P", "C">>,
     <<" ", "T", "R", "U", "S", "T">>,
     <<" ", "T", "R", " ">>,
     <<" ", "F", "O", "U", "N", "D", "A", "T", "I", "O", "N">>,
     <<" ", "A", "S", "S", "O", "C", "I", "A", "T", "E", "S">>,
     <<" ", "H", "O", "L", "D", "I", "N", "G", "S">>,
     <<" ", "E", "N", "T", "E", "R", "P", "R", "I", "S", "E">>,
     <<" ", "E", "N", "T", "E", "R", "P", "R", "I", "S", "E", "S">>,
     <<" ", "P", "R", "O", "P", "E", "R", "T", "I", "E", "S">>,
     <<" ", "P", "R", "O", "P", "E", "R", "T", "Y">>,
     <<" ", "G", "R", "O", "U", "P">>,
     <<" ", "I", "N", "V", "E", "S", "T">>,
     <<" ", "P", "A", "R", "T", "N", "E", "R", "S", "H", "I", "P">>,
     <<" ", "P", "A", "R", "T", "N", "E", "R", "S">>,
     <<" ", "L", "I", "V", "I", "N", "G", " ", "T", "R", "U", "S", "T">>,
     <<" ", "R", "E", "V", "O", "C", "A", "B", "L", "E">>,
     <<" ", "F", "A", "M", "I", "L", "Y">>,
     <<" ", "M", "A", "N", "A", "G", "E", "M", "E", "N", "T">>,
     <<" ", "F", "U", "N", "D">>,
     <<" ", "E", "S", "T", "A", "T", "E">>,
     <<" ", "L", "L", "C", ".">>,
     <<" ", "L", "L", "C", ",">>}

SUFFIX_TOKENS ==
    {<<"J", "R">>, <<"S", "R">>, <<"I", "I">>, <<"I", "I", "I">>, <<"I", "V">>, <<"V">>}

\* str.strip(chars) for one character
RECURSIVE StripChar(_, _)
StripChar(s, c) ==
    IF s # <<>> /\ Head(s) = c THEN StripChar(Tail(s), c)
    ELSE IF s # <<>> /\ s[Len(s)] = c THEN StripChar(SubSeq(s, 1, Len(s) - 1), c)
    ELSE s

\* str.replace(old, new): the occurrences of old from left to right, none
\* overlapping another
RECURSIVE Replace(_, _, _)
Replace(s, old, new) ==
    IF s = <<>> THEN <<>>
    ELSE IF StartsWith(s, old) THEN new \o Replace(Drop(s, Len(old)), old, new)
    ELSE <<Head(s)>> \o Replace(Tail(s), old, new)

\* part in s
Contains(s, part) ==
    \E i \in 0..(Len(s) - Len(part)) : SubSeq(s, i + 1, i + Len(part)) = part

\* the words of a text, given the places of the text that hold no whitespace:
\* a word starts at such a place that follows none, and runs on to the last
\* such place before one that is none
WordsOf(s, word) ==
    LET starts == {i \in word : (i - 1) \notin word}
        End(a) == CHOOSE e \in a..Len(s) : (e + 1) \notin word /\ \A i \in a..e : i \in word
        Start(k) == CHOOSE a \in starts : Cardinality({b \in starts : b < a}) = k - 1
    IN  [k \in 1..Cardinality(starts) |-> SubSeq(s, Start(k), End(Start(k)))]

\* str.split(): the words between runs of whitespace
SplitWords(s) ==
    CHOOSE r \in UNION {{WordsOf(t, word) : word \in {{i \in 1..Len(t) : ~IsSpace(t[i])}}} :
                           t \in {s}} : TRUE

\* mutant: only "&" joins two names
IsAmpersand(token) == token = <<"&">>

\* token.upper() in {"&", "AND"}
IsJoiner(token) == Upper(token) \in {<<"&">>, <<"A", "N", "D">>}

\* _split_owner_name, lines 1531 and 1535: the text the name is read from
CleanName(raw_name) ==
    Replace(StripChar(Strip(raw_name), ","), <<" ", " ">>, <<" ">>)

NameParts(first, middle, last, suffix, title, company) ==
    [first |-> first, middle |-> middle, last |-> last, suffix |-> suffix,
     title |-> title, company |-> company]

\* _split_owner_name
_split_owner_name(raw_name) ==
    LET clean == CleanName(raw_name)
        upper == Upper(clean)
        all == SplitWords(Replace(clean, <<".">>, <<>>))
        popped == all # <<>> /\ Upper(all[Len(all)]) \in SUFFIX_TOKENS
        suffix == IF popped THEN all[Len(all)] ELSE <<>>
        tokens == IF popped THEN SubSeq(all, 1, Len(all) - 1) ELSE all
        first_middle == SubSeq(tokens, 1, Len(tokens) - 1)
        titled == [i \in 1..Len(first_middle) |-> Title(first_middle[i])]
    IN  IF StripChar(Strip(raw_name), ",") = <<>>
        THEN NameParts(<<>>, <<>>, <<>>, <<>>, <<>>, <<>>)
        ELSE IF \E keyword \in BUSINESS_KEYWORDS : Contains(upper, keyword)
        THEN NameParts(<<>>, <<>>, <<>>, <<>>, <<>>, clean)
        ELSE IF all = <<>> THEN NameParts(<<>>, <<>>, <<>>, <<>>, <<>>, <<>>)
        ELSE IF tokens = <<>> THEN NameParts(<<>>, <<>>, <<>>, suffix, <<>>, <<>>)
        ELSE IF Len(tokens) = 1
        THEN NameParts(<<>>, <<>>, Title(tokens[1]), suffix, <<>>, <<>>)
        ELSE IF \E i \in 1..Len(first_middle) : IsJoiner(first_middle[i])
        THEN NameParts(JoinNonEmpty(titled), <<>>, Title(tokens[Len(tokens)]), suffix,
                       <<>>, <<>>)
        ELSE NameParts(titled[1], JoinNonEmpty(Tail(titled)), Title(tokens[Len(tokens)]),
                       suffix, <<>>, <<>>)

RECURSIVE JoinWith(_, _)
JoinWith(words, sep) ==
    IF words = <<>> THEN <<>>
    ELSE IF Len(words) = 1 THEN words[1]
    ELSE words[1] \o sep \o JoinWith(Tail(words), sep)

\* the names of the documentation
NameSmithJr == <<"S", "m", "i", "t", "h", " ", "J", "r">>

NameAcme ==
    <<"A", "c", "m", "e", " ", "P", "r", "o", "p", "e", "r", "t", "i", "e", "s", " ", "L", "L", "C">>

NameJohnAndJane ==
    <<"J", "o", "h", "n", " ", "&", " ", "J", "a", "n", "e", " ", "D", "o", "e">>

\* a surname that begins with the letters of a keyword, and a name in upper case
NameJohnInce == <<"J", "o", "h", "n", " ", "I", "n", "c", "e">>

NameUpperJr == <<"J", "O", "H", "N", " ", "S", "M", "I", "T", "H", " ", "J", "R">>

\* the names: words of a person, of a company and of a suffix in either
\* case, joined by one blank or by two, with a blank or a comma around them,
\* and the three names of the documentation
NameInputs ==
    LET NameWords ==
            {<<"J", "o", "h", "n">>, <<"D", "O", "E">>, <<"&">>, <<"a", "n", "d">>,
             <<"J", "r">>, <<"I", "I", "I">>, <<"L", "L", "C">>, <<"J", ".">>,
             <<"o", "'", "b", "r", "i", "e", "n">>}
    IN  {around[1] \o JoinWith(words, sep) \o around[2] :
            words \in UNION {[1..n -> NameWords] : n \in 0..MaxNameTokens},
            sep \in {<<" ">>, <<" ", " ">>},
            around \in {<<<<>>, <<>>>>, <<<<" ">>, <<",">>>>}}
        \cup {NameSmithJr, NameAcme, NameJohnAndJane, NameJohnInce, NameUpperJr}

InitName ==
    /\ QIdle
    /\ OIdle
    /\ ppc = "name:ready"
    /\ input \in NameInputs
    /\ output = <<>>
    /\ gui = NoWindow

\* _format_owner_table, line 895: the name of a row is split
SplitOwnerName ==
    /\ ppc = "name:ready"
    /\ output' = _split_owner_name(input)
    /\ ppc' = "name:done"
    /\ UNCHANGED <<qvars, ovars, input, gui>>

SpecName == InitName /\ [][SplitOwnerName]_vars

\* two texts are the same but for the case of their letters
SameLetters(s, t) == Upper(s) = Upper(t)

\* C14: a text with a business keyword in it is returned whole as the
\* company, all other parts empty; otherwise a last word out of JR, SR, II,
\* III, IV, V is the suffix, one word left is the last name, and of several
\* words left the final one is the last name, the first one the first name
\* and the others the middle name, unless "&" or "AND" is among the words
\* before the final one: then these, joined by blanks, are the first name
\* and the middle name is empty. The text is the name without the blanks and
\* commas around it, the words are read with the periods taken out, and the
\* words are compared without regard to case. The three names of the
\* documentation give the parts it states
C14_NameParts ==
    ppc = "name:done" =>
        LET text == CleanName(input)
            words == SplitWords(Replace(text, <<".">>, <<>>))
            n == Len(words)
            has_suffix == n > 0 /\ \E t \in SUFFIX_TOKENS : SameLetters(words[n], t)
            m == IF has_suffix THEN n - 1 ELSE n
        IN  /\ output.title = <<>>
            /\ IF \E keyword \in BUSINESS_KEYWORDS : Contains(Upper(text), keyword)
               THEN output = NameParts(<<>>, <<>>, <<>>, <<>>, <<>>, text)
               ELSE /\ output.company = <<>>
                    /\ output.suffix = IF has_suffix THEN words[n] ELSE <<>>
                    /\ m = 0 => output.last = <<>>
                    /\ m > 0 => SameLetters(output.last, words[m])
                    /\ m < 2 => output.first = <<>> /\ output.middle = <<>>
                    /\ m >= 2 =>
                          IF \E i \in 1..(m - 1) :
                                 Upper(words[i]) \in {<<"&">>, <<"A", "N", "D">>}
                          THEN /\ SameLetters(output.first,
                                              JoinWith(SubSeq(words, 1, m - 1), <<" ">>))
                               /\ output.middle = <<>>
                          ELSE /\ SameLetters(output.first, words[1])
                               /\ SameLetters(output.middle,
                                              JoinWith(SubSeq(words, 2, m - 1), <<" ">>))
            /\ input = NameSmithJr
                  => output = NameParts(<<>>, <<>>, <<"S", "m", "i", "t", "h">>,
                                        <<"J", "r">>, <<>>, <<>>)
            /\ input = NameAcme
                  => output = NameParts(<<>>, <<>>, <<>>, <<>>, <<>>, input)
            /\ input = NameJohnAndJane
                  => output = NameParts(SubSeq(NameJohnAndJane, 1, 11), <<>>,
                                        <<"D", "o", "e">>, <<>>, <<>>, <<>>)

C14_Witness ==
    /\ ppc = "name:done"
    /\ input = NameJohnAndJane
    /\ output.first = SubSeq(NameJohnAndJane, 1, 11)

C14_WitnessSuffix ==
    /\ ppc = "name:done"
    /\ output.suffix = <<"I", "I", "I">>
    /\ output.first = <<"J", "o", "h", "n">>
    /\ output.last = <<"D", "o", "e">>

C14_WitnessCompany ==
    /\ ppc = "name:done"
    /\ output.company # <<>>
    /\ Len(SplitWords(input)) = 3

\* C25: a name is classified as a company only when a business keyword is
\* in it as a whole word, with a blank or an end of the text on either side;
\* a surname that begins with the letters of a keyword makes no company
C25_KeywordIsWholeWord ==
    (ppc = "name:done" /\ output.company # <<>>) =>
        \E keyword \in BUSINESS_KEYWORDS :
            Contains(<<" ">> \o Upper(CleanName(input)) \o <<" ">>,
                     <<" ">> \o Strip(keyword) \o <<" ">>)

\* C26: each part of a person's name that is not empty (first, middle, last
\* and suffix) is in title case, whatever the case of the text given
C26_PartsTitleCased ==
    (ppc = "name:done" /\ output.company = <<>>) =>
        \A part \in {output.first, output.middle, output.last, output.suffix} :
            part = Title(part)

\* ------------------------------------------------------------------------
\* The parts of a mailing address: _parse_owner_address
\* ------------------------------------------------------------------------

MaxSegments == 4

\* html.entities.html5: <<name, text>>, the name with the semicolon where one
\* is written
Html5 == MapOfTable(Html5Data, 32, 7, 2)

Html5Names == {p[1] : p \in Html5}

\* the characters of a text from lo to hi as one string
RECURSIVE JoinedRange(_, _, _)
JoinedRange(s, lo, hi) ==
    IF lo > hi THEN ""
    ELSE IF lo = hi THEN s[lo]
    ELSE JoinedRange(s, lo, (lo + hi) \div 2) \o JoinedRange(s, ((lo + hi) \div 2) + 1, hi)

\* sys.int_info.default_max_str_digits: the most digits of a decimal text
\* that int() converts
MaxStrDigits == 4300

\* html._replace_charref, int(s[1:].rstrip(';')) and int(s[2:].rstrip(';'), 16):
\* the number written by the digits of a numeric character reference, in
\* base 10 or 16; a number above every code point is 1114112. int() raises
\* ValueError for a decimal text of more than MaxStrDigits digits, the
\* leading zeros counted, and converts a hexadecimal text of any length
CodePointOf(digits, base) ==
    LET HexValue(c) ==
            IF IsDigit(c) THEN DigitValue(c)
            ELSE 9 + (CHOOSE v \in 1..6 :
                          c \in {<<"a", "b", "c", "d", "e", "f">>[v],
                                 <<"A", "B", "C", "D", "E", "F">>[v]})
        Value(d) ==
            LET RECURSIVE Upto(_)
                Upto(n) == IF n = 0 THEN 0 ELSE Upto(n - 1) * base + HexValue(d[n])
            IN  IF Len(d) > 7 THEN 1114112 ELSE Min(Upto(Len(d)), 1114112)
    IN  IF base = 10 /\ Len(digits) > MaxStrDigits THEN ValueError
        ELSE Returned(Value(StripZeros(digits)))

\* html._replace_charref for a numeric reference: the replacement of
\* html._invalid_charrefs, the replacement character for a surrogate and for
\* a number above every code point, nothing for a code point of
\* html._invalid_codepoints, and the character of the code point
NumericReference(num) ==
    IF \E p \in InvalidCharrefs : p[1] = num
    THEN <<(CHOOSE p \in InvalidCharrefs : p[1] = num)[2]>>
    ELSE IF (num >= 55296 /\ num <= 57343) \/ num > 1114111 THEN <<"U+FFFD">>
    ELSE IF num \in InvalidCodepoints THEN <<>>
    ELSE <<chr(num)>>

\* html._replace_charref for a named reference: the text of the name, or
\* the text of the longest name the reference begins with and what follows
\* it, or the reference as it stands
NamedReference(s) ==
    LET names == {x \in 2..Len(s) : JoinedRange(s, 1, x) \in Html5Names}
    IN  IF names = {} THEN <<"&">> \o s
        ELSE CHOOSE r \in {Mapped(Html5, JoinedRange(s, 1, x)) \o Drop(s, x) :
                              x \in {y \in names : \A z \in names : z <= y}} : TRUE

\* html._charref at the start of t, the text behind an ampersand: len is the
\* length of the match (0 when there is none), text what replaces the
\* ampersand and the match, raised the exception of the replacement
CharRefAt(t) ==
    LET Semi(n) == IF Len(t) > n /\ t[n + 1] = ";" THEN n + 1 ELSE n
        Numeric(from, n, base) ==
            CHOOSE r \in {[len |-> Semi(from + n - 1), raised |-> num.raised,
                           text |-> IF num.raised = "none" THEN NumericReference(num.value)
                                    ELSE <<>>] :
                             num \in {CodePointOf(SubSeq(t, from, from + n - 1), base)}} : TRUE
        Named(n) == [len |-> Semi(n), raised |-> "none",
                     text |-> NamedReference(SubSeq(t, 1, Semi(n)))]
        NoMatch == [len |-> 0, raised |-> "none", text |-> <<"&">>]
        decimal == RunLength(Drop(t, 1), "[0-9]")
        hex == IF Len(t) >= 2 /\ t[2] \in {"x", "X"}
               THEN RunLength(Drop(t, 2), "[0-9a-fA-F]") ELSE 0
        name == Min(32, RunLength(t, "[^\\t\\n\\f <&#;]"))
    IN  IF t # <<>> /\ t[1] = "#"
        THEN IF decimal > 0 THEN Numeric(2, decimal, 10)
             ELSE IF hex > 0 THEN Numeric(3, hex, 16)
             ELSE NoMatch
        ELSE IF name > 0 THEN Named(name) ELSE NoMatch

\* html.unescape: every character reference is replaced, with or without
\* its semicolon, from the left; the exception of a replacement ends the
\* call, and no text is returned
RECURSIVE HtmlUnescape(_)
HtmlUnescape(raw) ==
    LET From(r) ==
            LET amps == {i \in 1..Len(r) : r[i] = "&"}
                first == CHOOSE i \in amps : \A j \in amps : i <= j
                After(m) ==
                    IF m.raised # "none" THEN ValueError
                    ELSE CHOOSE unescaped \in
                             {IF rest.raised # "none" THEN rest
                              ELSE Returned(SubSeq(r, 1, first - 1) \o m.text \o rest.value) :
                                 rest \in {HtmlUnescape(Drop(r, first + m.len))}} : TRUE
            IN  IF amps = {} THEN Returned(r)
                ELSE Strictly(After, CharRefAt(Drop(r, first)))
    IN  Strictly(From, raw)

\* str.split(sep) for one character: the texts between the separators
RECURSIVE SplitOn(_, _)
SplitOn(s, sep) ==
    IF \A i \in 1..Len(s) : s[i] # sep THEN <<s>>
    ELSE LET n == CHOOSE k \in 1..Len(s) : s[k] = sep /\ \A i \in 1..(k - 1) : s[i] # sep
         IN  <<SubSeq(s, 1, n - 1)>> \o SplitOn(Drop(s, n), sep)

\* [segment.strip() for segment in ... if segment.strip()]
RECURSIVE StrippedNonEmpty(_)
StrippedNonEmpty(parts) ==
    IF parts = <<>> THEN <<>>
    ELSE (IF Strip(Head(parts)) = <<>> THEN <<>> ELSE <<Strip(Head(parts))>>)
           \o StrippedNonEmpty(Tail(parts))

\* mutant: the state is kept as it is written
StateAsWritten(token) == token

\* _parse_owner_address, line 1475: tokens[0].upper()
StateOf(token) == Upper(token)

AddressParts(line1, line2, city, state, postcode) ==
    [line1 |-> line1, line2 |-> line2, city |-> city, state |-> state,
     postcode |-> postcode]

\* _parse_owner_address: the parts of the address, or the exception of
\* unescape(raw), line 1451
_parse_owner_address(raw) ==
    LET Parsed(decoded) ==
            LET segments == StrippedNonEmpty(SplitOn(decoded, "|"))
                n == Len(segments)
                line2 == IF n >= 3 THEN JoinWith(SubSeq(segments, 2, n - 1), <<" ">>)
                         ELSE <<>>
                city_state == IF n >= 2 THEN segments[n] ELSE <<>>
                halves == SplitOn(city_state, ",")
                rest == Strip(Drop(city_state, Len(halves[1]) + 1))
                tokens == SplitWords(rest)
            IN  IF segments = <<>> THEN AddressParts(<<>>, <<>>, <<>>, <<>>, <<>>)
                ELSE IF city_state = <<>>
                THEN AddressParts(segments[1], line2, <<>>, <<>>, <<>>)
                ELSE IF Len(halves) = 1
                THEN AddressParts(segments[1], line2, Title(city_state), <<>>, <<>>)
                ELSE IF tokens = <<>>
                THEN AddressParts(segments[1], line2, Title(Strip(halves[1])), <<>>, <<>>)
                ELSE AddressParts(segments[1], line2, Title(Strip(halves[1])),
                                  StateOf(tokens[1]), Strip(JoinWith(Tail(tokens), <<" ">>)))
    IN  IF raw = <<>> THEN Returned(AddressParts(<<>>, <<>>, <<>>, <<>>, <<>>))
        ELSE CHOOSE parts \in {IF unescaped.raised # "none" THEN unescaped
                               ELSE Returned(Parsed(unescaped.value)) :
                                  unescaped \in {HtmlUnescape(raw)}} : TRUE

\* the address of the documentation
AddressMainSt ==
    <<"1", "2", "3", " ", "M", "a", "i", "n", " ", "S", "t", "|", "D", "e", "n", "v",
      "e", "r", ",", " ", "C", "O", " ", "8", "0", "2", "0", "2">>

\* a decimal character reference of n digits: zeros, then the digits given
LongReference(n, digits) == <<"&", "#">> \o Zeros(n - Len(digits)) \o digits

\* the addresses: up to MaxSegments segments joined by "|"; segments that are
\* empty or blank (a blank and a reference to the no-break space), a street,
\* a second line, blocks with and without a comma and in either case, one
\* behind a reference to the tab, and a segment with character references,
\* by name and by number, with and without the semicolon, one of them to a
\* "|" and one to a letter beyond ASCII; and addresses with a decimal
\* reference of MaxStrDigits digits, of one digit more (in the first and in
\* the last segment, zeros only, with and without the semicolon) and a
\* hexadecimal reference of one digit more
AddressInputs ==
    LET AddressSegments ==
            {<<>>, <<" ", "&", "n", "b", "s", "p", ";">>, SubSeq(AddressMainSt, 1, 11),
             <<"A", "p", "t", " ", "4">>,
             SubSeq(AddressMainSt, 13, Len(AddressMainSt)),
             <<"s", "a", "l", "t", " ", "l", "a", "k", "e", " ", "c", "i", "t", "y",
               ",", "u", "t", " ", " ", "8", "4", "1", "0", "1", " ", "1", "2", "3",
               "4">>,
             <<"&", "#", "9", ";", "D", "E", "N", "V", "E", "R">>,
             <<"A", " ", "&", "a", "m", "p", " ", "B", "&", "#", "1", "2", "4", ";", "&",
               "l", "t", ";", "c", "&", "e", "a", "c", "u", "t", "e">>}
        Street == SubSeq(AddressMainSt, 1, 12)
        Block == SubSeq(AddressMainSt, 12, Len(AddressMainSt))
    IN  {JoinWith(segments, <<"|">>) :
            segments \in UNION {[1..n -> AddressSegments] : n \in 0..MaxSegments}}
        \cup {AddressMainSt,
              Street \o LongReference(MaxStrDigits, <<"6", "5">>) \o <<";">> \o Block,
              LongReference(MaxStrDigits + 1, <<"6", "5">>) \o <<";">> \o Block,
              Street \o LongReference(MaxStrDigits + 1, <<>>),
              Street \o <<"&", "#", "x">> \o Zeros(MaxStrDigits) \o <<"4", "1", ";">>
                  \o Block}

InitAddress ==
    /\ QIdle
    /\ OIdle
    /\ ppc = "address:ready"
    /\ input \in AddressInputs
    /\ output = <<>>
    /\ gui = NoWindow

\* _format_owner_table, line 876: the mailing address of a feature is
\* parsed; when the call raises, nothing is returned
ParseOwnerAddress ==
    /\ ppc = "address:ready"
    /\ \E outcome \in {_parse_owner_address(input)} :
          /\ output' = outcome.value
          /\ ppc' = IF outcome.raised = "none" THEN "address:done" ELSE "address:raised"
    /\ UNCHANGED <<qvars, ovars, input, gui>>

SpecAddress == InitAddress /\ [][ParseOwnerAddress]_vars

\* the segments of an address: the texts between the "|", without the blanks
\* around them, the empty ones left out
RECURSIVE SegmentsOf(_)
SegmentsOf(s) ==
    LET bar == IF \E i \in 1..Len(s) : s[i] = "|"
               THEN CHOOSE i \in 1..Len(s) : s[i] = "|" /\ \A j \in 1..(i - 1) : s[j] # "|"
               ELSE Len(s) + 1
        head == Strip(SubSeq(s, 1, bar - 1))
        tail == IF bar > Len(s) THEN <<>> ELSE SegmentsOf(SubSeq(s, bar + 1, Len(s)))
    IN  IF head = <<>> THEN tail ELSE <<head>> \o tail

\* whether a text holds a decimal character reference of more than
\* MaxStrDigits digits: "&#" and then that many digits at least
LongDecimalReference(text) ==
    \E i \in 1..(Len(text) - MaxStrDigits - 2) :
        /\ text[i] = "&"
        /\ text[i + 1] = "#"
        /\ \A j \in (i + 2)..(i + 2 + MaxStrDigits) : IsDigit(text[j])

\* the parts of an address whose segments are segs: the first segment is
\* line1; of exactly two segments the second is the block of city, state
\* and zip and line2 is empty; of three or more the middle ones joined by a
\* blank are line2 and the last is the block; the block is split at its
\* first comma into the city, title-cased, and a rest whose first word in
\* upper case is the state and whose other words are the zip; a block
\* without a comma is the city
PartsOfSegments(segs, parts) ==
    LET n == Len(segs)
        block == IF n >= 2 THEN segs[n] ELSE <<>>
        commas == {i \in 1..Len(block) : block[i] = ","}
        comma == IF commas = {} THEN 0
                 ELSE CHOOSE i \in commas : \A j \in commas : i <= j
        words == SplitWords(SubSeq(block, comma + 1, Len(block)))
    IN  /\ n = 0 => parts = AddressParts(<<>>, <<>>, <<>>, <<>>, <<>>)
        /\ n > 0 => parts.line1 = segs[1]
        /\ n < 3 => parts.line2 = <<>>
        /\ n >= 3 => parts.line2 = JoinWith(SubSeq(segs, 2, n - 1), <<" ">>)
        /\ n > 0 /\ comma = 0 =>
              /\ parts.city = Title(block)
              /\ parts.state = <<>>
              /\ parts.postcode = <<>>
        /\ comma > 0 =>
              /\ parts.city = Title(Strip(SubSeq(block, 1, comma - 1)))
              /\ parts.state = (IF words = <<>> THEN <<>> ELSE Upper(words[1]))
              /\ parts.postcode = (IF words = <<>> THEN <<>>
                                    ELSE JoinWith(Tail(words), <<" ">>))

\* C15 (as claimed): the input is split on "|" and the empty segments are
\* dropped; the parts returned are those of these segments (line1, line2,
\* and the block split into city, state and zip).
\* "123 Main St|Denver, CO 80202" gives line1 "123 Main St", no line2, city
\* "Denver", state "CO", zip "80202"
C15_AddressParts ==
    ppc = "address:done" =>
        /\ PartsOfSegments(SegmentsOf(input), output)
        /\ input = AddressMainSt =>
              output = AddressParts(SubSeq(AddressMainSt, 1, 11), <<>>,
                                    SubSeq(AddressMainSt, 13, 18),
                                    <<"C", "O">>, SubSeq(AddressMainSt, 24, 28))

\* C15 (amended): the character references of the input are decoded first,
\* and the decoded text is split on "|", the empty segments dropped; the
\* parts returned are those of these segments. An input with a decimal
\* reference of more than MaxStrDigits digits makes the call raise
\* ValueError, nothing being returned, and no other input does.
\* "123 Main St|Denver, CO 80202" gives line1 "123 Main St", no line2, city
\* "Denver", state "CO", zip "80202"
C15_DecodedAddressParts ==
    /\ ppc = "address:raised" => LongDecimalReference(input) /\ output = <<>>
    /\ ppc = "address:done" =>
          /\ ~LongDecimalReference(input)
          /\ PartsOfSegments(SegmentsOf(HtmlUnescape(input).value), output)
          /\ input = AddressMainSt =>
                output = AddressParts(SubSeq(AddressMainSt, 1, 11), <<>>,
                                      SubSeq(AddressMainSt, 13, 18),
                                      <<"C", "O">>, SubSeq(AddressMainSt, 24, 28))

C15_Witness ==
    /\ ppc = "address:done"
    /\ input = AddressMainSt
    /\ output.city = <<"D", "e", "n", "v", "e", "r">>
    /\ output.postcode = <<"8", "0", "2", "0", "2">>

C15_WitnessLine2 ==
    /\ ppc = "address:done"
    /\ Len(SegmentsOf(input)) = 4
    /\ output.state = <<"U", "T">>
    /\ output.city = <<"S", "a", "l", "t", " ", "L", "a", "k", "e", " ", "C", "i", "t", "y">>
    /\ output.line2 = <<"A", "p", "t", " ", "4", " ", "D", "E", "N", "V", "E", "R">>

\* a reference to "|" in a segment: the decoded text has a segment more
C15_WitnessDecoded ==
    /\ ppc = "address:done"
    /\ Len(SegmentsOf(input)) = 1
    /\ output.line1 = <<"A", " ", "&", " ", "B">>
    /\ output.city = <<"<", "C", "U+00E9">>

\* a decimal reference of MaxStrDigits digits is decoded, one of a digit
\* more raises
C15_WitnessLongReference ==
    /\ ppc = "address:done"
    /\ Len(input) > MaxStrDigits + 14
    /\ LongReference(MaxStrDigits, <<"6", "5">>) = SubSeq(input, 13, MaxStrDigits + 14)
    /\ output.line1 = SubSeq(AddressMainSt, 1, 11)
    /\ output.line2 = <<"A">>

C15_WitnessRaised ==
    /\ ppc = "address:raised"
    /\ input = SubSeq(AddressMainSt, 1, 12) \o LongReference(MaxStrDigits + 1, <<>>)

\* ------------------------------------------------------------------------
\* The query of the desktop application: perform_query of gui.py
\* ------------------------------------------------------------------------

MaxGuiCap == 4

\* the configuration of the form: one envelope, which selects some first
\* rows of the layer; "Max records" left empty or holding any integer
\* (_collect_form_values, lines 333-340); and the box "Query all subdivisions
\* in radius", which is ticked when the window opens (line 125)
InitGui ==
    /\ OIdle
    /\ PIdle
    /\ cfg \in [areas : {[a \in 1..NumAreas |-> IF a = 1 THEN first ELSE {}] :
                            first \in {1..hi : hi \in 0..Len(FirstRows)}
                                          \cup BigWindows \cup LongWindows},
                max_records : {NoCap}
                                \cup {<<n>> : n \in (0 - MaxBelowZero)..MaxGuiCap}
                                \cup BigCaps,
                mrc : MrcValues,
                all_subdivisions : BOOLEAN,
                flags : {[a \in 1..NumAreas |-> a = 1 /\ b] : b \in BOOLEAN}]
    /\ pc = "gui"
    /\ area = 1
    /\ qf = NoFrame
    /\ ret = NoResult
    /\ sub = NoSub
    /\ combined_features = <<>>
    /\ seen_keys = {}
    /\ exceeded = FALSE
    /\ result = NoResult
    /\ error = NoError
    /\ requests = <<>>
    /\ arrivals = <<>>
    /\ regionResults = <<>>

\* perform_query, lines 53-70: _query_all_subdivisions or query_features is
\* called with the cap of the form
PerformQuery ==
    /\ pc = "gui"
    /\ qf' = IF cfg.all_subdivisions
             THEN NewFrame("discover", BaseWhere, NoCap)
             ELSE NewFrame("gui", BaseWhere, cfg.max_records)
    /\ sub' = IF cfg.all_subdivisions THEN [NoSub EXCEPT !.caller = "gui"] ELSE NoSub
    /\ pc' = "query"
    /\ UNCHANGED <<ovars, pvars, cfg, area, ret, combined_features, seen_keys,
                   exceeded, result, error, requests, arrivals, regionResults>>

\* perform_query, lines 54 and 62: the QueryResult of the call is the result
PerformQueryReturn ==
    /\ pc = "returned"
    /\ qf.caller = "gui"
    /\ result' = ret
    /\ pc' = "done"
    /\ qf' = NoFrame
    /\ UNCHANGED <<ovars, pvars, cfg, area, ret, sub, combined_features, seen_keys,
                   exceeded, error, requests, arrivals, regionResults>>

GuiNext ==
    \/ PerformQuery
    \/ QueryPage
    \/ CollectFiltersReturn
    \/ SubdivisionReturn
    \/ PerformQueryReturn

SpecGui == InitGui /\ [][GuiNext]_vars

\* C16: a call of query_features with a cap, of no record or more, that
\* returns fewer features than the catalog holds for the query returns
\* truncated = true
C16_NoUnderReport ==
    (pc = "done" /\ result.by = "query_features" /\ result.max_records # NoCap
        /\ result.max_records[1] >= 0
        /\ Len(result.features) < Len(FilterRows(AreaRows(1), BaseWhere)))
    => result.truncated

\* the steps of a call are taken one after the other: the loop of
\* query_features does not wait for anything but the answer to its request
SpecGuiLive == InitGui /\ [][GuiNext]_vars /\ WF_vars(GuiNext)

\* ceil(total / page_size) + 1 by the arithmetic of Python; with a page size
\* of 0 the quotient is not defined and the one request of the call is
\* counted
CeilPlusOne(total, page_size) ==
    IF page_size = 0 THEN 1
    ELSE IF page_size > 0 THEN ((total + page_size - 1) \div page_size) + 1
    ELSE 1 - (total \div (0 - page_size))

\* the requests of the calls of query_features: requests[s] with the offset
\* 0 is the first request of a call, and the call's requests go on to the
\* request before the next one with the offset 0
LastOfCall(s) ==
    CHOOSE e \in s..Len(requests) :
        /\ \A i \in (s + 1)..e : requests[i].offset # 0
        /\ e < Len(requests) => requests[e + 1].offset = 0

\* the requests of each call ask for the same rows of the same query, each
\* at the offset where the rows asked for before it end, and they are no
\* more than Most(total, page_size), total being the number of features the
\* catalog holds for the query
RequestsBounded(Most(_, _)) ==
    /\ requests # <<>> => requests[1].offset = 0
    /\ \A s \in 1..Len(requests) :
          requests[s].offset = 0 =>
              LET e == LastOfCall(s)
                  total == Len(FilterRows(AreaRows(1), requests[s].where))
              IN  /\ (e - s) + 1 <= Most(total, requests[s].count)
                  /\ \A i \in (s + 1)..e :
                        /\ requests[i].where = requests[s].where
                        /\ requests[i].count = requests[s].count
                        /\ requests[i].offset
                              = requests[i - 1].offset + requests[s].count
                        /\ requests[i].offset > requests[i - 1].offset

\* C21 (as claimed): a call of query_features makes at most
\* ceil(total / pageSize) + 1 page requests, with a cap or without, the
\* offset growing by the page size from one request to the next
C21_AtMostCeilPlusOne == RequestsBounded(CeilPlusOne)

\* one request at least is made by every call
OneOrCeilPlusOne(total, page_size) ==
    IF CeilPlusOne(total, page_size) < 1 THEN 1 ELSE CeilPlusOne(total, page_size)

\* C21 (amended): query_features terminates on a finite catalog that honours
\* resultOffset and resultRecordCount, with a cap (0 and the caps below 0
\* included) or without: a call makes at most ceil(total / pageSize) + 1
\* page requests, and one where that number is below one (a cap below 0),
\* the offset growing by the page size from one request to the next
C21_Terminates == []RequestsBounded(OneOrCeilPlusOne) /\ <>(pc = "done")

\* the catalog holds two full pages, and the third request finds nothing
C21_Witness ==
    /\ pc = "done"
    /\ result.by = "query_features"
    /\ result.max_records = NoCap
    /\ result.page_size = DefaultMaxRecordCount
    /\ result.pages = <<DefaultMaxRecordCount, DefaultMaxRecordCount, 0>>
    /\ Len(requests) = 3
    /\ requests[3].offset = 2 * DefaultMaxRecordCount

\* a cap of 0: one request for no rows
C21_WitnessCapZero ==
    /\ pc = "done"
    /\ result.by = "query_features"
    /\ result.max_records = <<0>>
    /\ Len(requests) = 1
    /\ requests[1].count = 0
    /\ Len(FilterRows(AreaRows(1), BaseWhere)) > 0

\* a cap of -1: one request, for -1 rows, of a catalog that holds features
C21_WitnessCapBelowZero ==
    /\ pc = "done"
    /\ result.by = "query_features"
    /\ result.max_records = <<-1>>
    /\ Len(requests) = 1
    /\ requests[1].count = -1
    /\ Len(FilterRows(AreaRows(1), BaseWhere)) > 1
    /\ Len(result.features) = Len(FilterRows(AreaRows(1), BaseWhere)) - 1

\* ------------------------------------------------------------------------
\* Properties of the pass over the subdivisions and of the requests
\* ------------------------------------------------------------------------

\* C17: without a cap, _query_all_subdivisions returns each feature that one
\* query with the base filter returns for the region, once and only once,
\* on a catalog that compares SubdivisionName exactly and whose values may
\* be null or blank or differ in case or in the blanks around them only
C17_SubdivisionsComplete ==
    (pc = "returned" /\ ret.by = "_query_all_subdivisions" /\ cfg.max_records = NoCap)
    => LET base == FilterRows(AreaRows(area), BaseWhere)
       IN  /\ Len(ret.features) = Len(base)
           /\ \A i \in 1..Len(base) :
                 Cardinality({j \in 1..Len(ret.features) : ret.features[j] = base[i]}) = 1

\* the label a request's filter was built from, in lower case
RequestLabel(r) ==
    Lower(IF r.where.kind = "eq" THEN SqlLiteralValue(r.where.literal) ELSE Unspecified)

\* the request r may follow the requests made so far: it is the first page
\* of the first region; or the next page of the call of the last request,
\* at the offset where that one's page ended; or the first page of a call
\* for the next region; or, in the pass over the subdivisions, the first
\* page of the call that follows in the same region: the first subdivision
\* (or the single query when there is none) after the discovery, and a
\* subdivision of a greater label after a subdivision
FollowsInOrder(made, r) ==
    IF made = <<>> THEN r.area = 1 /\ r.offset = 0 /\ r.where = BaseWhere
    ELSE LET p == made[Len(made)]
         IN  \/ /\ r.area = p.area /\ r.where = p.where
                /\ r.count = p.count /\ p.count > 0
                /\ r.offset = p.offset + p.count
             \/ /\ r.area = p.area + 1 /\ r.offset = 0 /\ r.where = BaseWhere
             \/ /\ r.area = p.area /\ r.offset = 0 /\ cfg.all_subdivisions
                /\ \/ p.where = BaseWhere
                   \/ /\ p.where # BaseWhere /\ r.where # BaseWhere
                      /\ StrLess(RequestLabel(p), RequestLabel(r))

\* C18: the requests go out one at a time and none twice: a step makes at
\* most one request; within a call the pages are asked for at the offsets 0,
\* pageSize, 2*pageSize, ... each after the page before it has come; regions
\* are queried in the order given and subdivisions in the order of their
\* labels; and once a request has failed no request follows
C18_RequestsInOrder ==
    [][\/ requests' = requests
       \/ /\ error = NoError
          /\ Len(requests') = Len(requests) + 1
          /\ SubSeq(requests', 1, Len(requests)) = requests
          /\ FollowsInOrder(requests, requests'[Len(requests')])
          /\ pc = "query" /\ qf.offset = requests'[Len(requests')].offset]_vars

C18_Witness ==
    /\ Len(requests) >= 5
    /\ \E i \in 1..Len(requests) : requests[i].offset > 0 /\ requests[i].where.kind = "eq"
    /\ \E i \in 1..Len(requests) : requests[i].where.kind = "blank"
    /\ \E i \in 1..Len(requests) : requests[i].area = 2

C18_WitnessFailure ==
    /\ error # NoError
    /\ Len(requests) >= 3
    /\ pc = "exit1"

\* C19: when the merge over the regions ends and the global cap, if there
\* is one a cap of no record or more, has dropped no feature of the merged
\* list, the merged truncated flag is the OR of the truncated flags of the
\* results of the regions
C19_MergedFlagIsOr ==
    (/\ pc = "done" /\ result.by = "main" /\ result.count = Len(result.features)
     /\ cfg.max_records = NoCap \/ cfg.max_records[1] >= 0)
    => (result.truncated <=> \E i \in 1..Len(result.parts) : result.parts[i])

\* SubdivisionName without the blanks around it and in upper case; <<>> for
\* a name that is null or blank
FoldedName(f) == Upper(Strip(IF f.sub.null THEN <<>> ELSE f.sub.text))

FilterKey(filter) == IF filter.clause.kind = "blank" THEN <<>> ELSE Upper(filter.label)

\* the features the catalog holds for the first k filters, filter by filter
RECURSIVE FilterResults(_, _)
FilterResults(filters, k) ==
    IF k = 0 THEN <<>>
    ELSE FilterResults(filters, k - 1)
           \o FilterRows(AreaRows(area), _combine_where(BaseWhere, filters[k].clause))

\* the clauses of the calls of query_features made for the current region
\* after the discovery, in the order they were made
SubdivisionCalls ==
    LET IsFirstPage(r) == r.area = area /\ r.offset = 0
        firsts == SelectSeq(requests, IsFirstPage)
    IN  [i \in 1..(Len(firsts) - 1) |-> firsts[i + 1].where]

\* C20 (as claimed): the filters are one for each distinct SubdivisionName after trimming
\* and case folding, the null and blank names making the one bucket
\* "Unspecified", in the order of their labels without regard to case; one
\* call of query_features is made for each filter, in that order and without
\* a cap; the results are concatenated in that order, and the global cap
\* cuts the concatenation after the last call only
C20_OneQueryPerFilter ==
    (pc \in {"query", "returned"} /\ sub.filters # <<>>) =>
        LET filters == sub.filters
            rws == AreaRows(area)
        IN  /\ {FilterKey(filters[i]) : i \in 1..Len(filters)}
                  = {FoldedName(rws[i]) : i \in 1..Len(rws)}
            /\ \A i, j \in 1..Len(filters) :
                  i < j => /\ FilterKey(filters[i]) # FilterKey(filters[j])
                           /\ ~StrLess(Lower(filters[j].label), Lower(filters[i].label))
            /\ \A i \in 1..Len(filters) :
                  filters[i].clause.kind = "blank" <=> filters[i].label = Unspecified
            /\ qf.caller = "sub" =>
                  /\ qf.max_records = NoCap
                  /\ qf.where = _combine_where(BaseWhere, filters[sub.idx].clause)
                  /\ sub.aggregated = FilterResults(filters, sub.idx - 1)
                  /\ pc = "returned" =>
                        /\ SubdivisionCalls
                              = [i \in 1..sub.idx |->
                                    _combine_where(BaseWhere, filters[i].clause)]
                        /\ ret.features = FilterRows(rws, qf.where)
            /\ (pc = "returned" /\ ret.by = "_query_all_subdivisions") =>
                  LET all == FilterResults(filters, Len(filters))
                  IN  /\ sub.idx = Len(filters)
                      /\ Len(SubdivisionCalls) = Len(filters)
                      /\ ret.count = Len(all)
                      /\ ret.features =
                            IF cfg.max_records # NoCap /\ Len(all) > cfg.max_records[1]
                            THEN Prefix(all, cfg.max_records[1]) ELSE all

\* ------------------------------------------------------------------------
\* Literals in the filter clauses: _escape_sql_literal, _build_in_clause
\* ------------------------------------------------------------------------

MaxLiteralLen == 3

MaxInValues == 2

\* f"SubdivisionName = '{_escape_sql_literal(raw_name)}'"
SubdivisionClause(raw_name) ==
    <<"S", "u", "b", "d", "i", "v", "i", "s", "i", "o", "n", "N", "a", "m", "e", " ",
      "=", " ", "'">> \o _escape_sql_literal(raw_name) \o <<"'">>

\* _build_in_clause
_build_in_clause(field, values) ==
    LET chosen == SelectSeq(values, LAMBDA value : value # <<>>)
        safe_values == [i \in 1..Len(chosen) |->
                           <<"'">> \o _escape_sql_literal(chosen[i]) \o <<"'">>]
        Clause(joined) == field \o <<" ", "I", "N", " ", "(">> \o joined \o <<")">>
    IN  IF safe_values = <<>> THEN <<"1", "=", "0">>
        ELSE Clause(JoinWith(safe_values, <<",", " ">>))

\* the raw values have quotes, commas and brackets in them; one value of
\* any text up to MaxLiteralLen is followed by values of a fixed choice
InitLiteral ==
    LET RawChars == {"a", "'", ","}
        RawValues == UNION {[1..n -> RawChars] : n \in 0..MaxLiteralLen}
        More == {<<>>, <<"b">>, <<"'">>, <<"c", "'", ",", " ", "'", ")">>}
    IN  /\ QIdle
        /\ OIdle
        /\ ppc = "literal:ready"
        /\ input \in {<<raw>> \o rest :
                         raw \in RawValues,
                         rest \in UNION {[1..n -> More] : n \in 0..MaxInValues}}
        /\ output = <<>>
        /\ gui = NoWindow

\* _collect_subdivision_filters, lines 718-726: the clause of a name that is
\* not blank
BuildSubdivisionClause ==
    /\ ppc = "literal:ready"
    /\ Strip(input[1]) # <<>>
    /\ output' = SubdivisionClause(Strip(input[1]))
    /\ ppc' = "literal:eq"
    /\ UNCHANGED <<qvars, ovars, input, gui>>

\* _fetch_overlay_attributes, line 809: the clause of a chunk of schedule
\* numbers
BuildInClause ==
    /\ ppc = "literal:ready"
    /\ output' = _build_in_clause(<<"S", "c", "h", "e", "d">>, input)
    /\ ppc' = "literal:in"
    /\ UNCHANGED <<qvars, ovars, input, gui>>

SpecLiteral == InitLiteral /\ [][BuildSubdivisionClause \/ BuildInClause]_vars

\* how the catalog reads the quoted literals of a clause: a literal opens at
\* a quote and closes at the next quote that is not doubled; inside, a
\* doubled quote stands for one quote
RECURSIVE ReadLiterals(_, _, _, _)
ReadLiterals(text, inside, current, read) ==
    IF text = <<>> THEN [values |-> read, closed |-> ~inside]
    ELSE IF ~inside THEN ReadLiterals(Tail(text), Head(text) = "'", <<>>, read)
    ELSE IF Head(text) # "'"
    THEN ReadLiterals(Tail(text), TRUE, Append(current, Head(text)), read)
    ELSE IF Len(text) >= 2 /\ text[2] = "'"
    THEN ReadLiterals(Tail(Tail(text)), TRUE, Append(current, "'"), read)
    ELSE ReadLiterals(Tail(text), FALSE, <<>>, Append(read, current))

Quotes(text) == Len(SelectSeq(text, LAMBDA c : c = "'"))

\* C23: a value put into a clause as a literal has each of its single quotes
\* doubled: the literal has twice the quotes of the raw value, and the clause
\* reads back as the raw values and nothing else, each literal closed where
\* the program closed it
C23_LiteralsEscaped ==
    /\ ppc = "literal:eq" =>
          /\ ReadLiterals(output, FALSE, <<>>, <<>>)
                = [values |-> <<Strip(input[1])>>, closed |-> TRUE]
          /\ Quotes(output) = 2 * Quotes(Strip(input[1])) + 2
    /\ ppc = "literal:in" =>
          LET chosen == SelectSeq(input, LAMBDA value : value # <<>>)
          IN  /\ ReadLiterals(output, FALSE, <<>>, <<>>)
                    = [values |-> chosen, closed |-> TRUE]
              /\ Quotes(output) = 2 * Quotes(JoinWith(chosen, <<>>)) + 2 * Len(chosen)

C23_Witness ==
    /\ ppc = "literal:in"
    /\ Len(input) = 3
    /\ input[1] = <<"a", "'", ",">>
    /\ input[2] = <<>>
    /\ input[3] = <<"c", "'", ",", " ", "'", ")">>
    /\ Quotes(output) = 10

C23_WitnessSubdivision ==
    /\ ppc = "literal:eq"
    /\ input[1] = <<"'", "a", "'">>
    /\ Quotes(output) = 6

\* ------------------------------------------------------------------------
\* A link that is built and read back: _build_hyperlink_formula and
\* _extract_range_and_label
\* ------------------------------------------------------------------------

MaxLabelLen == 3

\* document ids have no slash and are not empty, gids are digits, cells are
\* letters followed by digits; the labels are any text of up to MaxLabelLen
\* characters out of a letter, the double quote, and the characters that
\* follow a label in the formula
InitRoundTrip ==
    LET LabelChars == {"a", "\"", ")", ",", " "}
    IN  /\ QIdle
        /\ OIdle
        /\ ppc = "roundtrip:ready"
        /\ input \in [doc_id : {<<"d">>, <<"e", "\"", ",">>, <<"A", "1", " ", "#">>},
                      gid : {<<"0">>, <<"1", "2">>},
                      cell_range : {<<"A", "1">>, <<"A", "B", "1", "0">>, <<"Z", "9">>},
                      label : UNION {[1..n -> LabelChars] : n \in 1..MaxLabelLen}]
        /\ output = <<>>
        /\ gui = NoWindow

\* _rewrite_workbook_links, lines 1365-1373: the formula is built; a later
\* call reads the formula back
BuildAndExtract ==
    /\ ppc = "roundtrip:ready"
    /\ output' = LET Both(formula) == <<formula, _extract_range_and_label(formula, <<>>)>>
                 IN  Both(_build_hyperlink_formula(input.doc_id, input.gid,
                                                   input.cell_range, input.label))
    /\ ppc' = "roundtrip:done"
    /\ UNCHANGED <<qvars, ovars, input, gui>>

SpecRoundTrip == InitRoundTrip /\ [][BuildAndExtract]_vars

\* C24: the formula built for a cell, a gid of digits, a document id
\* without a slash and a label that is not empty reads back as that cell
\* and that label, double quotes in the label included
C24_RoundTrip ==
    ppc = "roundtrip:done" =>
        output[2] = [cell_range |-> input.cell_range, label |-> input.label]

\* the label holds double quotes and the text that closes a formula
C24_Witness ==
    /\ ppc = "roundtrip:done"
    /\ input.label = <<"\"", ")", "\"">>
    /\ input.doc_id = <<"e", "\"", ",">>
    /\ output[2].label = input.label
    /\ Len(output[1]) > Len(HyperlinkOpen) + Len(GidMark) + Len(RangeMark) + 12

\* ------------------------------------------------------------------------
\* The unit of a property: _extract_unit
\* ------------------------------------------------------------------------

MaxUnitWords == 3

\* the characters of a value, [A-Za-z0-9\\-] in both patterns, which
\* re.IGNORECASE widens by the other characters of i, s and k
UnitValueClass == "[A-Za-z0-9\\\\-]"

\* a pattern of the form token gap+ ([A-Za-z0-9\\-]+), letters compared
\* without regard to case, tried at the start of s: the group, <<>> when the
\* pattern does not match there. The gap takes the longest run that leaves
\* a character for the group
PatternAt(s, token, gap) ==
    LET Group(rest, n, v) ==
            IF n = 0 THEN <<>>
            ELSE IF v > 0 THEN SubSeq(rest, n + 1, n + v)
            ELSE IF n >= 2 /\ RunLength(<<rest[n]>>, UnitValueClass) = 1 THEN <<rest[n]>>
            ELSE <<>>
        AfterGap(rest, n) == Group(rest, n, RunLength(Drop(rest, n), UnitValueClass))
        AfterToken(rest) == AfterGap(rest, RunLength(rest, gap))
    IN  IF /\ Len(s) >= Len(token)
           /\ \A i \in 1..Len(token) : MatchesIgnoringCase(s[i], token[i])
        THEN AfterToken(Drop(s, Len(token))) ELSE <<>>

\* pattern.search(text): the group of the leftmost match, <<>> for no match
RECURSIVE PatternSearch(_, _, _)
PatternSearch(text, token, gap) ==
    LET OrLater(here) ==
            IF here # <<>> THEN here ELSE PatternSearch(Tail(text), token, gap)
    IN  IF text = <<>> THEN <<>> ELSE OrLater(PatternAt(text, token, gap))

\* UNIT_RE = r"UNIT\s+([A-Za-z0-9\\-]+)"
UNIT_RE(text) == PatternSearch(text, <<"U", "N", "I", "T">>, "\\s")

\* BLDG_RE = r"\\bBLDG\\s+([A-Za-z0-9\\-]+)": in a raw string \\b is a
\* backslash followed by b, and \\s+ is a backslash followed by letters s
BLDG_RE(text) == PatternSearch(text, <<"\\", "b", "B", "L", "D", "G", "\\">>, "[sS]")

\* _extract_unit on the two fields of a feature; a field that is None or
\* empty is <<>>
_extract_unit(description, situs) ==
    LET Second(found, other) == IF found # <<>> THEN found ELSE other
        First(found, pattern_other) == IF found # <<>> THEN found ELSE pattern_other
    IN  First(Second(UNIT_RE(description), UNIT_RE(situs)),
              Second(BLDG_RE(description), BLDG_RE(situs)))

\* the description is up to MaxUnitWords words joined by blanks; the address
\* is one of a few texts, one of them with the backslashes BLDG_RE asks for
InitUnit ==
    LET Words == {<<"U", "N", "I", "T">>, <<"B", "l", "d", "g">>, <<"5">>,
                  <<"b", "-", "2">>, <<"L", "o", "t">>}
        Addresses ==
            {<<>>, <<"U", "n", "i", "t", " ", " ", "3">>,
             <<"B", "L", "D", "G", " ", "7">>,
             <<"1", " ", "M", "a", "i", "n", " ", "S", "t">>,
             <<"\\", "b", "B", "L", "D", "G", "\\", "s", "s", "9">>}
    IN  /\ QIdle
        /\ OIdle
        /\ ppc = "unit:ready"
        /\ input \in [description :
                          {JoinWith(words, <<" ">>) :
                              words \in UNION {[1..n -> Words] : n \in 0..MaxUnitWords}},
                      situs : Addresses]
        /\ output = <<>>
        /\ gui = NoWindow

\* _format_owner_table, line 882
ExtractUnit ==
    /\ ppc = "unit:ready"
    /\ output' = _extract_unit(input.description, input.situs)
    /\ ppc' = "unit:done"
    /\ UNCHANGED <<qvars, ovars, input, gui>>

SpecUnit == InitUnit /\ [][ExtractUnit]_vars

\* the value that follows a word in a text: the word, standing at the start
\* of the text or after a blank, then blanks, then the value
ValueAfter(text, word) ==
    IF StartsWith(Upper(text), word) THEN PatternSearch(text, word, "\\s")
    ELSE PatternSearch(text, <<" ">> \o word, "\\s")

\* C27: the unit is the value that follows UNIT in the description or else
\* in the address; when neither has one it is the value that follows BLDG
\* in the description or else in the address; it is empty only when
\* neither field has a UNIT or a BLDG followed by a value
C27_UnitThenBuilding ==
    ppc = "unit:done" =>
        LET Of(word) ==
                IF ValueAfter(input.description, word) # <<>>
                THEN ValueAfter(input.description, word)
                ELSE ValueAfter(input.situs, word)
            unit_value == Of(<<"U", "N", "I", "T">>)
            bldg_value == Of(<<"B", "L", "D", "G">>)
        IN  output = IF unit_value # <<>> THEN unit_value ELSE bldg_value

\* ------------------------------------------------------------------------
\* The rows of the owner table: _format_owner_table, _extract_owner_names
\* ------------------------------------------------------------------------

MaxFeatures == 2

\* BR_SPLIT_RE = <br\s*/?>, letters in either case: the length of the match
\* at the start of s, 0 when there is none
BrLength(s) ==
    LET Closed(n) == IF Len(s) > n /\ s[n + 1] = ">" THEN n + 1 ELSE 0
        Slash(n) == Closed(IF Len(s) > n /\ s[n + 1] = "/" THEN n + 1 ELSE n)
    IN  IF /\ Len(s) >= 3
           /\ s[1] = "<"
           /\ MatchesIgnoringCase(s[2], "b")
           /\ MatchesIgnoringCase(s[3], "r")
        THEN Slash(3 + RunLength(Drop(s, 3), "\\s")) ELSE 0

\* BR_SPLIT_RE.split(decoded): the texts between the matches; current is
\* the text read since the last match
RECURSIVE BrSplit(_, _)
BrSplit(s, current) ==
    LET Next(n) == IF n > 0 THEN <<current>> \o BrSplit(Drop(s, n), <<>>)
                   ELSE BrSplit(Tail(s), Append(current, Head(s)))
    IN  IF s = <<>> THEN <<current>> ELSE Next(BrLength(s))

\* TAG_RE = <[^>]+>: the length of the match at the start of s, 0 for none
TagLength(s) ==
    LET Closed(n) == IF n > 0 /\ Len(s) > n + 1 /\ s[n + 2] = ">" THEN n + 2 ELSE 0
    IN  IF s # <<>> /\ Head(s) = "<" THEN Closed(RunLength(Tail(s), "[^>]")) ELSE 0

\* TAG_RE.sub("", part)
RECURSIVE StripTags(_)
StripTags(s) ==
    LET Next(n) == IF n > 0 THEN StripTags(Drop(s, n))
                   ELSE <<Head(s)>> \o StripTags(Tail(s))
    IN  IF s = <<>> THEN <<>> ELSE Next(TagLength(s))

\* _extract_owner_names: the names of the field, or the exception of
\* unescape(html_names), line 1442; a field that is None or empty is <<>>
_extract_owner_names(html_names) ==
    LET Parts(split) == StrippedNonEmpty([i \in 1..Len(split) |-> StripTags(split[i])])
    IN  IF html_names = <<>> THEN Returned(<<>>)
        ELSE CHOOSE names \in {IF unescaped.raised # "none" THEN unescaped
                               ELSE Returned(Parts(BrSplit(unescaped.value, <<>>))) :
                                  unescaped \in {HtmlUnescape(html_names)}} : TRUE

\* mutant: without a name in either field there is no name, and so no row
RawNamesOrNone(attrs) ==
    CHOOSE raw_names \in
        {IF names.raised # "none" \/ names.value # <<>> THEN names
         ELSE Returned(IF attrs.full_name # <<>> THEN <<Strip(attrs.full_name)>>
                       ELSE <<>>) :
            names \in {_extract_owner_names(attrs.html)}} : TRUE

\* _format_owner_table, lines 872-875: the names of a feature, or the
\* exception of _extract_owner_names
RawNames(attrs) ==
    CHOOSE raw_names \in
        {IF names.raised # "none" \/ names.value # <<>> THEN names
         ELSE Returned(IF attrs.full_name # <<>> THEN <<Strip(attrs.full_name)>>
                       ELSE <<<<>>>>) :
            names \in {_extract_owner_names(attrs.html)}} : TRUE

\* a feature without attributes
NoAttributes == [empty |-> TRUE, html |-> <<>>, full_name |-> <<>>,
                 address |-> <<>>, complex |-> <<>>, unit |-> <<>>]

\* _format_owner_table, lines 867-942: the rows of the features from
\* position k on, in the order they are appended; feature and name are the
\* positions the row was made from. The first exception, of
\* _extract_owner_names or of _parse_owner_address on a feature, ends the
\* loop, the rows appended before it being lost with it
RECURSIVE AppendedRows(_, _)
AppendedRows(features, k) ==
    LET RowsOf(attrs, raw_names, address) ==
            [j \in 1..Len(raw_names) |->
                [complex |-> attrs.complex, unit |-> attrs.unit,
                 parts |-> _split_owner_name(raw_names[j]), address |-> address,
                 feature |-> k, name |-> j]]
        Rows(attrs) ==
            IF attrs.empty THEN Returned(<<>>)
            ELSE CHOOSE made \in
                     {IF raw_names.raised # "none" THEN raw_names
                      ELSE IF address.raised # "none" THEN address
                      ELSE Returned(RowsOf(attrs, raw_names.value, address.value)) :
                         raw_names \in {RawNames(attrs)},
                         address \in {_parse_owner_address(attrs.address)}} : TRUE
    IN  IF k > Len(features) THEN Returned(<<>>)
        ELSE CHOOSE appended \in
                 {IF first.raised # "none" THEN first
                  ELSE IF rest.raised # "none" THEN rest
                  ELSE Returned(first.value \o rest.value) :
                     first \in {Rows(features[k])},
                     rest \in {AppendedRows(features, k + 1)}} : TRUE

\* _format_owner_table: the rows sorted, or the exception of the loop
_format_owner_table(features) ==
    CHOOSE table \in {IF appended.raised # "none" THEN appended
                      ELSE Returned(SortRows(appended.value)) :
                         appended \in {AppendedRows(features, 1)}} : TRUE

\* the features: the HTML field has no name (it is empty, or blank with a
\* reference to the no-break space), one, or several, with tags, breaks in
\* either case, written out or as character references, and a character
\* reference in a name; the plain name is there or not; the mailing address
\* is that of the documentation; a feature may have no attributes at all.
\* A few lists more, of MaxFeatures features at most, have a feature with a
\* long decimal reference: of MaxStrDigits digits in both fields; of a digit
\* more behind a name of the HTML field, in the first feature; and of a
\* digit more in the mailing address, in the second feature
InitTable ==
    LET Htmls == {<<>>, <<" ", "&", "#", "1", "6", "0", ";">>, <<"A">>,
                  <<"A", "&", "l", "t", ";", "b", "r", "&", "g", "t", ";", "B">>,
                  <<"L", "L", "C", "<", "B", "R", " ", "/", ">", "b", "&", "a", "m", "p",
                    ";", "c", "<", "b", "r", "/", ">">>,
                  <<"<", "b", ">", "A", "<", "/", "b", ">", "<", "b", "r", ">", "&", "n",
                    "b", "s", "p", ";", "<", "b", "r", ">">>,
                  <<"<", "i", ">", "<", "/", "i", ">">>}
        Feature(html, address) ==
            [empty |-> FALSE, html |-> html, full_name |-> <<>>, address |-> address,
             complex |-> <<"c">>, unit |-> <<"1">>]
        Pool == [empty : {FALSE}, html : Htmls, full_name : {<<>>, <<" ", "F", " ">>},
                 address : {AddressMainSt}, complex : {<<"c">>, <<"d">>},
                 unit : {<<"1">>}]
                  \cup {NoAttributes}
        WithLongReference ==
            {<<Feature(<<"E", "<", "b", "r", ">">>
                           \o LongReference(MaxStrDigits, <<"6", "6">>),
                       LongReference(MaxStrDigits, <<"6", "5">>))>>,
             <<Feature(<<"E", "<", "b", "r", ">">>
                           \o LongReference(MaxStrDigits + 1, <<"6", "6">>), <<>>),
               Feature(<<"A">>, AddressMainSt)>>,
             <<Feature(<<"A">>, AddressMainSt),
               Feature(<<"E">>, LongReference(MaxStrDigits + 1, <<"6", "5">>))>>,
             <<NoAttributes,
               Feature(<<>>, <<"&", "#", "x">> \o Zeros(MaxStrDigits + 1) \o <<"4", "1">>)>>}
    IN  /\ QIdle
        /\ OIdle
        /\ ppc = "table:ready"
        /\ input \in UNION {[1..n -> Pool] : n \in 0..MaxFeatures}
                        \cup {features \in WithLongReference :
                                 Len(features) <= MaxFeatures}
        /\ output = <<>>
        /\ gui = NoWindow

\* main, the --owner-table branch: the table of the deduplicated features;
\* when the call raises, nothing is returned
FormatOwnerTable ==
    /\ ppc = "table:ready"
    /\ \E outcome \in {_format_owner_table(input)} :
          /\ output' = outcome.value
          /\ ppc' = IF outcome.raised = "none" THEN "table:done" ELSE "table:raised"
    /\ UNCHANGED <<qvars, ovars, input, gui>>

SpecTable == InitTable /\ [][FormatOwnerTable]_vars

\* the names extracted from the HTML field of a feature
NamesOf(attrs) == _extract_owner_names(attrs.html).value

\* the rows the table must have: for each feature with attributes one row
\* for each name of the HTML field, or one row when the field has no name
RECURSIVE RowsExpected(_, _, _)
RowsExpected(features, k, with_attributes_only) ==
    IF k = 0 THEN 0
    ELSE RowsExpected(features, k - 1, with_attributes_only)
           + (IF with_attributes_only /\ features[k].empty THEN 0
              ELSE IF NamesOf(features[k]) = <<>> THEN 1
              ELSE Len(NamesOf(features[k])))

\* C28 (as claimed): every feature given has at least one row, one for each
\* name extracted from the HTML field and one when no name is extracted, so
\* that the rows are as many as the sum over the features of
\* max(1, number of names)
C28_RowForEveryFeature ==
    ppc = "table:done" =>
        /\ \A k \in 1..Len(input) : \E i \in 1..Len(output) : output[i].feature = k
        /\ Len(output) = RowsExpected(input, Len(input), FALSE)

\* C28 (amended): a feature without attributes has no row; every feature
\* with attributes has one row for each name extracted from the HTML field,
\* in the order of the field, and one row, made from the plain name (which
\* may be empty), when no name is extracted; the rows are as many as the
\* sum over the features with attributes of max(1, number of names). A
\* feature with attributes whose HTML field or mailing address holds a
\* decimal reference of more than MaxStrDigits digits makes the call raise
\* ValueError, no row being returned, and no other feature does
C28_RowsPerFeatureWithAttributes ==
    LET Long(attrs) ==
            /\ ~attrs.empty
            /\ LongDecimalReference(attrs.html) \/ LongDecimalReference(attrs.address)
    IN  /\ ppc = "table:raised" =>
              /\ \E k \in 1..Len(input) : Long(input[k])
              /\ output = <<>>
        /\ ppc = "table:done" =>
              /\ \A k \in 1..Len(input) : ~Long(input[k])
              /\ Len(output) = RowsExpected(input, Len(input), TRUE)
              /\ \A k \in 1..Len(input) :
                    LET mine == SelectSeq(output, LAMBDA row : row.feature = k)
                        names == NamesOf(input[k])
                    IN  IF input[k].empty THEN mine = <<>>
                        ELSE IF names # <<>>
                        THEN /\ Len(mine) = Len(names)
                             /\ \A j \in 1..Len(mine) :
                                   /\ mine[j].name = j
                                   /\ mine[j].parts = _split_owner_name(names[j])
                        ELSE /\ Len(mine) = 1
                             /\ mine[1].parts = _split_owner_name(Strip(input[k].full_name))

\* two names of the first feature follow the row of the second feature,
\* which has no name in either field
C28_Witness ==
    /\ ppc = "table:done"
    /\ Len(input) = 2
    /\ input[1].complex = <<"d">> /\ input[2].complex = <<"c">>
    /\ input[2].html = <<"<", "i", ">", "<", "/", "i", ">">>
    /\ input[2].full_name = <<>>
    /\ Len(output) = 3
    /\ output[1].feature = 2 /\ output[1].parts.last = <<>>
    /\ output[2].parts.last = <<"L", "l", "c">>
    /\ output[3].parts.last = <<"B", "&", "C">>

\* a feature without attributes leaves no row
C28_WitnessNoAttributes ==
    /\ ppc = "table:done"
    /\ Len(input) = 2
    /\ input[1] = NoAttributes
    /\ Len(output) = 1
    /\ output[1].feature = 2

\* decimal references of MaxStrDigits digits are decoded: the names "E" and
\* "B", the address line "A"
C28_WitnessLongReference ==
    /\ ppc = "table:done"
    /\ Len(input) = 1
    /\ Len(input[1].html) = MaxStrDigits + 7
    /\ Len(output) = 2
    /\ output[2].parts.last = <<"B">>
    /\ output[2].address.line1 = <<"A">>

\* a reference of a digit more in the second feature: the call raises, and
\* the rows of the first feature are not returned
C28_WitnessRaised ==
    /\ ppc = "table:raised"
    /\ Len(input) = 2
    /\ input[1].html = <<"A">>
    /\ input[2].html = <<"E">>
    /\ LongDecimalReference(input[2].address)

\* ---------------------------------------------------------------------
\* The window of the desktop application: ScraperGUI of gui.py
\* ---------------------------------------------------------------------

\* how many times the Run button is clicked while the window is open
MaxClicks == 3

\* what perform_query hands back for a configuration: the CSV of the owner
\* table, which always has its header line, or the JSON of the result
PayloadsOf(owner_table) ==
    IF owner_table THEN {"Complex,Unit", "Complex,Unit;A,1"}
    ELSE {"{}", "{features}"}

\* ScraperGUI.__init__: Run enabled, Save disabled, nothing to save
NewWindow ==
    [run_button |-> "normal",
     save_button |-> "disabled",
     last_output |-> "",
     last_is_csv |-> FALSE,
     status_var |-> "Fill in the fields and click Run Query.",
     threads |-> <<>>,      \* the worker threads started, in order
     after |-> <<>>,        \* the callbacks queued with root.after, in order
     files |-> {},          \* what save_results wrote
     dialog |-> "none",     \* the modal dialog the UI thread waits in
     clicks |-> 0]          \* history: clicks on the Run button

InitWindow ==
    /\ QIdle
    /\ OIdle
    /\ ppc = "idle" /\ input = <<>> /\ output = <<>>
    /\ gui = NewWindow

\* start_query, the command of the Run button; a disabled button ignores
\* the click, and so does the window while a modal dialog is open.  A form
\* that does not parse shows a dialog and changes nothing
StartQuery ==
    /\ gui # NoWindow
    /\ gui.dialog = "none"
    /\ gui.run_button = "normal"
    /\ gui.clicks < MaxClicks
    /\ \E valid \in BOOLEAN, owner_table \in BOOLEAN :
        gui' = IF ~valid
               THEN [gui EXCEPT !.clicks = @ + 1]
               ELSE [gui EXCEPT !.clicks = @ + 1,
                                !.status_var = "Running query",
                                !.run_button = "disabled",
                                !.save_button = "disabled",
                                !.last_output = "",
                                !.last_is_csv = owner_table,
                                !.threads = Append(@,
                                    [pos |-> "perform_query",
                                     owner_table |-> owner_table,
                                     data |-> "",
                                     called |-> <<>>])]
    /\ UNCHANGED <<qvars, ovars, ppc, input, output>>

\* _run_worker when perform_query returns: _on_success is queued with the
\* payload and the thread ends
RunWorkerReturns ==
    /\ gui # NoWindow
    /\ \E i \in DOMAIN gui.threads :
        /\ gui.threads[i].pos = "perform_query"
        /\ \E data \in PayloadsOf(gui.threads[i].owner_table) :
            gui' = [gui EXCEPT
                      !.threads[i].pos = "returned",
                      !.threads[i].data = data,
                      !.after = Append(@, [thread |-> i,
                                           callback |-> "_on_success",
                                           data |-> data,
                                           is_csv |-> gui.threads[i].owner_table])]
    /\ UNCHANGED <<qvars, ovars, ppc, input, output>>

\* _run_worker when perform_query raises: inside the except clause, where exc
\* is bound, a lambda that reads exc is queued
RunWorkerRaises ==
    /\ gui # NoWindow
    /\ \E i \in DOMAIN gui.threads :
        /\ gui.threads[i].pos = "perform_query"
        /\ gui' = [gui EXCEPT
                      !.threads[i].pos = "except",
                      !.after = Append(@, [thread |-> i,
                                           callback |-> "_on_error",
                                           data |-> "",
                                           is_csv |-> FALSE])]
    /\ UNCHANGED <<qvars, ovars, ppc, input, output>>

\* _run_worker returns out of the except clause, which unbinds exc
RunWorkerLeavesExcept ==
    /\ gui # NoWindow
    /\ \E i \in DOMAIN gui.threads :
        /\ gui.threads[i].pos = "except"
        /\ gui' = [gui EXCEPT !.threads[i].pos = "returned"]
    /\ UNCHANGED <<qvars, ovars, ppc, input, output>>

\* the Save button after a payload arrived: enabled when it is not empty
SaveStateFor(data) == IF data # "" THEN "normal" ELSE "disabled"

_on_success(w, thread, data, is_csv) ==
    [w EXCEPT !.last_output = data,
              !.last_is_csv = is_csv,
              !.status_var = "Finished",
              !.run_button = "normal",
              !.save_button = SaveStateFor(data),
              !.threads[thread].called = Append(@, "_on_success")]

_on_error(w, thread) ==
    [w EXCEPT !.status_var = "Query failed.",
              !.run_button = "normal",
              !.threads[thread].called = Append(@, "_on_error")]

\* the UI thread runs the oldest queued callback, from the main loop or
\* from the loop of a modal dialog.  The lambda of the failure
\* path reads exc when it runs: while the worker is still inside its except
\* clause exc is bound and _on_error runs; once the worker has left the
\* clause the read raises NameError and nothing of the window changes
RunCallback ==
    /\ gui # NoWindow
    /\ gui.after # <<>>
    /\ LET cb == Head(gui.after)
           w == [gui EXCEPT !.after = Tail(@)]
       IN  gui' = IF cb.callback = "_on_success"
                  THEN _on_success(w, cb.thread, cb.data, cb.is_csv)
                  ELSE IF gui.threads[cb.thread].pos = "except"
                       THEN _on_error(w, cb.thread)
                       ELSE w
    /\ UNCHANGED <<qvars, ovars, ppc, input, output>>

\* save_results, the command of the Save button, up to its file dialog,
\* lines 384-393: with nothing to save a message is shown and nothing
\* changes; otherwise the UI thread waits in filedialog.asksaveasfilename,
\* a modal dialog with an event loop of its own
SaveResults ==
    /\ gui # NoWindow
    /\ gui.dialog = "none"
    /\ gui.save_button = "normal"
    /\ gui' = IF gui.last_output = "" THEN gui
              ELSE [gui EXCEPT !.dialog = "asksaveasfilename"]
    /\ UNCHANGED <<qvars, ovars, ppc, input, output>>

\* save_results from the return of the file dialog on, lines 393-408: a
\* dialog that is cancelled, or a file that cannot be written, leaves the
\* window as it is; otherwise last_output, as it is by now, is written and
\* the status names the file
AskSaveAsFilenameReturns ==
    /\ gui # NoWindow
    /\ gui.dialog = "asksaveasfilename"
    /\ \E written \in BOOLEAN :
        gui' = IF ~written
               THEN [gui EXCEPT !.dialog = "none"]
               ELSE [gui EXCEPT !.dialog = "none",
                                !.files = @ \cup {gui.last_output},
                                !.status_var = "Saved results"]
    /\ UNCHANGED <<qvars, ovars, ppc, input, output>>

WindowNext ==
    \/ StartQuery
    \/ RunWorkerReturns
    \/ RunWorkerRaises
    \/ RunWorkerLeavesExcept
    \/ RunCallback
    \/ SaveResults
    \/ AskSaveAsFilenameReturns

SpecWindow == InitWindow /\ [][WindowNext]_vars

\* a worker is active from its start until its queued callback has run
ActiveWorker(i) ==
    \/ gui.threads[i].pos = "perform_query"
    \/ \E k \in DOMAIN gui.after : gui.after[k].thread = i

\* the workers whose _on_success has run
Succeeded == {i \in DOMAIN gui.threads : gui.threads[i].called = <<"_on_success">>}

\* C29: at most one query worker is active at any time and the Run button is
\* disabled while it is; a worker that is no longer active has triggered
\* exactly one of _on_success and _on_error, and the Run button is enabled
\* only when every worker has; the Save button is enabled only while
\* last_output is the non-empty payload of the most recent successful query
\* and no query was started after it
C29_OneWorkerOneCallback ==
    gui # NoWindow =>
        /\ Cardinality({i \in DOMAIN gui.threads : ActiveWorker(i)}) <= 1
        /\ \A i \in DOMAIN gui.threads :
            /\ ActiveWorker(i) => gui.run_button = "disabled"
            /\ Len(gui.threads[i].called) <= 1
            /\ ~ActiveWorker(i) =>
                gui.threads[i].called \in {<<"_on_success">>, <<"_on_error">>}
        /\ gui.run_button = "normal" =>
            \A i \in DOMAIN gui.threads : Len(gui.threads[i].called) = 1
        /\ gui.save_button = "normal" =>
            /\ gui.last_output # ""
            /\ Succeeded # {}
            /\ LET latest == CHOOSE i \in Succeeded : \A j \in Succeeded : j <= i
               IN  /\ gui.last_output = gui.threads[latest].data
                   /\ latest = Len(gui.threads)

\* ---------------------------------------------------------------------
\* The status of a roster record: _normalise_status of municipal_rosters.py
\* ---------------------------------------------------------------------

\* most blanks on either side of a status text
MaxStatusPad == 1

\* the table in the order the dict is written in: <<key, alias>>
_STATUS_ALIASES ==
    <<
      <<<<"A", "P", "P", "R", "O", "V", "E", "D">>, "active">>,
      <<<<"A", "C", "T", "I", "V", "E">>, "active">>,
      <<<<"I", "S", "S", "U", "E", "D">>, "active">>,
      <<<<"C", "U", "R", "R", "E", "N", "T">>, "active">>,
      <<<<"G", "O", "O", "D", " ", "S", "T", "A", "N", "D", "I", "N", "G">>, "active">>,
      <<<<"I", "N", " ", "G", "O", "O", "D", " ", "S", "T", "A", "N", "D", "I", "N", "G">>, "active">>,
      <<<<"R", "E", "N", "E", "W", "E", "D">>, "active">>,
      <<<<"P", "A", "I", "D">>, "active">>,
      <<<<"P", "E", "N", "D", "I", "N", "G">>, "pending">>,
      <<<<"U", "N", "D", "E", "R", " ", "R", "E", "V", "I", "E", "W">>, "pending">>,
      <<<<"I", "N", " ", "P", "R", "O", "C", "E", "S", "S">>, "pending">>,
      <<<<"E", "X", "P", "I", "R", "E", "D">>, "expired">>,
      <<<<"I", "N", "A", "C", "T", "I", "V", "E">>, "inactive">>,
      <<<<"S", "U", "S", "P", "E", "N", "D", "E", "D">>, "inactive">>,
      <<<<"R", "E", "V", "O", "K", "E", "D">>, "revoked">>,
      <<<<"D", "E", "N", "I", "E", "D">>, "revoked">>,
      <<<<"C", "A", "N", "C", "E", "L", "L", "E", "D">>, "revoked">>,
      <<<<"C", "A", "N", "C", "E", "L", "E", "D">>, "revoked">>
    >>

\* the loop over _STATUS_ALIASES.items(): the alias of the first key found
\* anywhere in upper, from entry k on
RECURSIVE FirstAlias(_, _)
FirstAlias(upper, k) ==
    IF k > Len(_STATUS_ALIASES) THEN "unknown"
    ELSE IF Contains(upper, _STATUS_ALIASES[k][1]) THEN _STATUS_ALIASES[k][2]
    ELSE FirstAlias(upper, k + 1)

\* value is [none, text]: None, or the text str(value) gives
_normalise_status(value) ==
    IF value.none THEN "unknown"
    ELSE LET Looked(text) == IF text = <<>> THEN "unknown" ELSE FirstAlias(Upper(text), 1)
         IN  Looked(Strip(value.text))

\* up to n blanks
Blanks(n) == [i \in 1..n |-> " "]

\* None, the blank texts, every key in upper, lower and title case with up to
\* MaxStatusPad blanks on either side, and texts that hold no key
StatusInputs ==
    LET Keys == {_STATUS_ALIASES[k][1] : k \in DOMAIN _STATUS_ALIASES}
        Cased == UNION {{key, Lower(key), Title(key)} : key \in Keys}
        Other == {<<"L", "a", "p", "s", "e", "d">>, <<"n", "/", "a">>,
                  <<"C", "l", "o", "s", "e", "d">>, <<>>}
        Pads == {Blanks(n) : n \in 0..MaxStatusPad}
    IN  {[none |-> TRUE, text |-> <<>>]}
            \cup {[none |-> FALSE, text |-> left \o text \o right] :
                     left \in Pads, right \in Pads, text \in Cased \cup Other}

InitStatus ==
    /\ QIdle
    /\ OIdle
    /\ ppc = "status:ready"
    /\ input \in StatusInputs
    /\ output = "unset"
    /\ gui = NoWindow

NormaliseStatus ==
    /\ ppc = "status:ready"
    /\ ppc' = "status:done"
    /\ output' = _normalise_status(input)
    /\ UNCHANGED <<qvars, ovars, input, gui>>

SpecStatus == InitStatus /\ [][NormaliseStatus]_vars

\* the keys the text of the input is equal to once stripped and upper-cased
KeysEqualTo(value) ==
    {k \in DOMAIN _STATUS_ALIASES : Upper(Strip(value.text)) = _STATUS_ALIASES[k][1]}

\* the keys found anywhere in the text of the input
KeysWithin(value) ==
    {k \in DOMAIN _STATUS_ALIASES :
        Contains(Upper(Strip(value.text)), _STATUS_ALIASES[k][1])}

\* C30: a status text equal to a key K of _STATUS_ALIASES, in any letter case
\* and with blanks around it, is mapped to _STATUS_ALIASES[K], for every key
\* of the table; None, a blank text and a text that holds no key are mapped
\* to "unknown"
C30_EveryKeyToItsAlias ==
    ppc = "status:done" =>
        /\ input.none => output = "unknown"
        /\ ~input.none =>
            /\ \A k \in KeysEqualTo(input) : output = _STATUS_ALIASES[k][2]
            /\ KeysWithin(input) = {} => output = "unknown"

====
